---------------------------- MODULE Spec2Model ----------------------------
(***************************************************************************)
(* Model of the jukebox server: the server-side Spotify token store, the   *)
(* gateway spotifyApiCall with its refresh-on-expiry / refresh-on-401      *)
(* policy, the radio playlist lookup and the best-effort read handlers     *)
(* GET /api/spotify/queue and GET /api/spotify/now-playing.                *)
(* Further down: the enqueue handler POST /api/spotify/queue, the remove   *)
(* handler DELETE /api/spotify/queue, POST /api/spotify/control,           *)
(* getOrCreateRadioPlaylist on its own, POST /api/spotify/token,           *)
(* GET /api/spotify/status, and GET /api/spotify/search behind the         *)
(* serverless handler with its request timer.                              *)
(* Last: the search limit, the immediate-queue revision of the enqueue     *)
(* handler, the once-only initialization of the serverless entry points,   *)
(* and the refresh timer of the client TokenProvider.                      *)
(*                                                                         *)
(* Node runs every handler on one thread: the code between two awaits is   *)
(* one atomic step, and the steps of concurrent requests interleave at     *)
(* the awaits of network I/O.  A fetch is modelled as "in flight" from the *)
(* step that sends it to the step that receives its outcome, which the     *)
(* environment (Spotify) chooses.                                          *)
(*                                                                         *)
(* Values: a token string is a positive number, 0 is the falsy value       *)
(* (undefined / empty string); times are milliseconds, as Date.now().      *)
(***************************************************************************)
EXTENDS Integers, Sequences, FiniteSets, TLC

VARIABLES
    tokens,      \* SpotifyTokenStorage.tokens: <<>> is null, <<r>> a record
    now,         \* Date.now(), milliseconds
    credsSet,    \* CLIENT_ID && CLIENT_SECRET are both non-empty
    playlistId,  \* radioPlaylist's cached id, 0 when absent
    setAt,       \* history: Date.now() at the last setTokens
    setE,        \* history: expiresIn passed to the last setTokens
    advances,    \* history: number of clock advances so far
    issued,      \* Spotify accounts service: token pairs issued so far
    lastWrite,   \* history: the last write to the token store
    created,     \* Spotify: playlists created so far
    served,      \* history: requests answered so far
    hpc,         \* per request: position in its route handler
    gpc,         \* per request: position in getValidServerToken/spotifyApiCall
    gmode,       \* per request: "api" (spotifyApiCall) or "gvt" (getValidServerToken alone)
    gurl,        \* per request: the target of the current spotifyApiCall
    gretry,      \* per request: retryOn401 of the current spotifyApiCall
    gtok,        \* per request: local accessToken
    grt,         \* per request: local refreshToken handed to refreshAccessToken
    gres,        \* per request: outcome of the finished gateway call
    hloc,        \* per request: locals of the route handler
    resp,        \* per request: HTTP response sent, status 0 while pending
    trace        \* per request: history of the current gateway call

storeVars == <<tokens, now, credsSet, setAt, setE, advances, issued, lastWrite>>
gwVars    == <<gpc, gmode, gurl, gretry, gtok, grt, gres, trace>>
hVars     == <<hpc, hloc, resp, playlistId, created, served>>
vars      == <<tokens, now, credsSet, playlistId, setAt, setE, advances, issued,
               lastWrite, created, served, hpc, gpc, gmode, gurl, gretry, gtok, grt, gres, hloc,
               resp, trace>>

----------------------------------------------------------------------------
(* Bounds of the model *)

MaxAdvances == 3
MaxIssued == 3
MaxPlaylistLen == 3
MaxImmediateLen == 2
MaxRequests == 2
MaxCreated == 2

(* Requests handled concurrently *)
Procs == {1, 2}

(* expiresIn values (seconds) handed to setTokens when the store is exercised
   on its own, and expires_in values the accounts service answers to the
   server; 0 is "absent" *)
ExpiresInValues == {301, 600, 3600}
AnsweredExpiresIn == {0, 3600}

(* Clock steps (ms): fine ones around the margin, a coarse one for requests *)
FineSteps == {1, 999, 1000, 299000}
CoarseSteps == {3300000}

----------------------------------------------------------------------------
(* SpotifyTokenStorage *)

setTokens(accessToken, refreshToken, expiresIn, t) ==
    << [access_token  |-> accessToken,
        refresh_token |-> refreshToken,
        expires_at    |-> t + expiresIn * 1000] >>

getAccessToken(tk) == IF tk = <<>> THEN 0 ELSE tk[1].access_token

getRefreshToken(tk) == IF tk = <<>> THEN 0 ELSE tk[1].refresh_token

isTokenExpiredNoMargin(tk, t) ==
    IF tk = <<>> THEN TRUE ELSE t >= tk[1].expires_at

isTokenExpired(tk, t) ==
    IF tk = <<>> THEN TRUE ELSE t >= tk[1].expires_at - 5 * 60 * 1000

clearTokens == <<>>

(* tokens.expires_in || 3600 *)
OrDefault(expiresIn) == IF expiresIn = 0 THEN 3600 ELSE expiresIn

(* a || b on token strings *)
Or(a, b) == IF a # 0 THEN a ELSE b

----------------------------------------------------------------------------
(* Outcomes of a gateway call *)

NoRes      == [kind |-> "none",  status |-> 0, err |-> ""]
Resp(s)    == [kind |-> "resp",  status |-> s, err |-> ""]
Throw(e)   == [kind |-> "throw", status |-> 0, err |-> e]
Token(a)   == [kind |-> "token", status |-> a, err |-> ""]

(* HTTP statuses Spotify answers: ok with a body, ok without, 401, other failure *)
Statuses == {200, 204, 401, 404}

IsOk(s) == s >= 200 /\ s <= 299

(* A write to the token store: by request `by` (0: not a gateway call), the
   refresh token `rt` the accounts service answered (0: none) and the refresh
   token `used` for the exchange *)
Write(by, op, rt, used) == [by |-> by, op |-> op, rt |-> rt, used |-> used]

NoWrite == Write(0, "none", 0, 0)

(* Set the gateway registers of request p, leave the others' alone *)
GwSet(p, pc, tok, rt, res, tr) ==
    /\ gpc'   = [gpc   EXCEPT ![p] = pc]
    /\ gtok'  = [gtok  EXCEPT ![p] = tok]
    /\ grt'   = [grt   EXCEPT ![p] = rt]
    /\ gres'  = [gres  EXCEPT ![p] = res]
    /\ trace' = [trace EXCEPT ![p] = tr]

(* The store after a refresh answered [access_token, refresh_token, expires_in] *)
RefreshedStoreNoFallback(access, rtNew, rtUsed, expiresIn) ==
    setTokens(access, rtNew, OrDefault(expiresIn), now)

RefreshedStore(access, rtNew, rtUsed, expiresIn) ==
    setTokens(access, Or(rtNew, rtUsed), OrDefault(expiresIn), now)

(* spotifyApiCall from the return of getValidServerToken (value 0 is null) to
   its next await; getValidServerToken called alone just returns the value.
   The await of an already settled promise is not a separate step: the
   continuation reads only the local accessToken. *)
AfterGvt(p, mode, value, tr) ==
    IF mode = "gvt"
    THEN GwSet(p, "ret", value, 0, Token(value), tr)
    ELSE IF value = 0
         THEN GwSet(p, "ret", 0, 0, Throw("No valid access token available"), tr)
         ELSE GwSet(p, "fetch1", value, 0, NoRes, Append(tr, "target"))

(* getValidServerToken up to its first await, entered by spotifyApiCall
   (mode "api") or directly by a handler (mode "gvt") *)
Enter(p, mode, url, retry) ==
    LET at   == getAccessToken(tokens)
        rt   == getRefreshToken(tokens)
        expd == isTokenExpired(tokens, now)
        tr   == << IF expd THEN "startExpired" ELSE "startFresh" >>
    IN  /\ gmode'  = [gmode  EXCEPT ![p] = mode]
        /\ gurl'   = [gurl   EXCEPT ![p] = url]
        /\ gretry' = [gretry EXCEPT ![p] = retry]
        /\ IF at # 0 /\ expd /\ rt # 0
           THEN IF ~credsSet
                THEN /\ tokens' = clearTokens
                     /\ lastWrite' = Write(p, "clear", 0, 0)
                     /\ AfterGvt(p, mode, 0, Append(tr, "xchgFail"))
                ELSE /\ UNCHANGED <<tokens, lastWrite>>
                     /\ GwSet(p, "gvtRefresh", 0, rt, NoRes, Append(tr, "xchg"))
           ELSE /\ UNCHANGED <<tokens, lastWrite>>
                /\ AfterGvt(p, mode, IF at # 0 /\ ~expd THEN at ELSE 0, tr)

(* variant: a refresh that completes after another one keeps the stored pair *)
GvtRefreshOkFirstWins(p) ==
    /\ gpc[p] = "gvtRefresh"
    /\ issued < MaxIssued
    /\ \E fresh \in BOOLEAN, e \in AnsweredExpiresIn :
         LET access == issued + 1
             rtNew  == IF fresh THEN issued + 1 ELSE 0
             keep   == ~isTokenExpired(tokens, now)
         IN  /\ tokens' = IF keep THEN tokens
                          ELSE RefreshedStore(access, rtNew, grt[p], e)
             /\ setAt' = IF keep THEN setAt ELSE now
             /\ setE' = IF keep THEN setE ELSE OrDefault(e)
             /\ issued' = issued + 1
             /\ lastWrite' = Write(p, "refresh", rtNew, grt[p])
             /\ AfterGvt(p, gmode[p], access, Append(trace[p], "xchgOk"))
    /\ UNCHANGED <<now, credsSet, advances, gmode, gurl, gretry>>

(* getValidServerToken: the refresh it awaited succeeded *)
GvtRefreshOk(p) ==
    /\ gpc[p] = "gvtRefresh"
    /\ issued < MaxIssued
    /\ \E fresh \in BOOLEAN, e \in AnsweredExpiresIn :
         LET access == issued + 1
             rtNew  == IF fresh THEN issued + 1 ELSE 0
         IN  /\ tokens' = RefreshedStore(access, rtNew, grt[p], e)
             /\ setAt' = now
             /\ setE' = OrDefault(e)
             /\ issued' = issued + 1
             /\ lastWrite' = Write(p, "refresh", rtNew, grt[p])
             /\ AfterGvt(p, gmode[p], access, Append(trace[p], "xchgOk"))
    /\ UNCHANGED <<now, credsSet, advances, gmode, gurl, gretry>>

(* variant: the catch block forgets clearTokens() *)
GvtRefreshFailKeepsStore(p) ==
    /\ gpc[p] = "gvtRefresh"
    /\ tokens' = tokens
    /\ lastWrite' = Write(p, "clear", 0, 0)
    /\ AfterGvt(p, gmode[p], 0, Append(trace[p], "xchgFail"))
    /\ UNCHANGED <<now, credsSet, setAt, setE, advances, issued, gmode, gurl, gretry>>

(* getValidServerToken: the refresh was rejected or the request failed *)
GvtRefreshFail(p) ==
    /\ gpc[p] = "gvtRefresh"
    /\ tokens' = clearTokens
    /\ lastWrite' = Write(p, "clear", 0, 0)
    /\ AfterGvt(p, gmode[p], 0, Append(trace[p], "xchgFail"))
    /\ UNCHANGED <<now, credsSet, setAt, setE, advances, issued, gmode, gurl, gretry>>

(* spotifyApiCall: the first fetch answered *)
Fetch1Resp(p) ==
    /\ gpc[p] = "fetch1"
    /\ \E s \in Statuses :
         LET rt == getRefreshToken(tokens)
             tr == Append(trace[p], IF s = 401 THEN "r401" ELSE "rOther")
         IN  IF s = 401 /\ gretry[p] /\ rt # 0
             THEN IF ~credsSet
                  THEN GwSet(p, "ret", gtok[p], rt,
                             Throw("Authentication failed: Token refresh unsuccessful"),
                             Append(tr, "xchgFail"))
                  ELSE GwSet(p, "refresh401", gtok[p], rt, NoRes, Append(tr, "xchg401"))
             ELSE GwSet(p, "ret", gtok[p], grt[p], Resp(s), tr)
    /\ UNCHANGED <<storeVars, gmode, gurl, gretry>>

(* spotifyApiCall: the first fetch threw (network error); it propagates *)
Fetch1Throw(p) ==
    /\ gpc[p] = "fetch1"
    /\ GwSet(p, "ret", gtok[p], grt[p], Throw("fetch failed"),
             Append(trace[p], "netErr"))
    /\ UNCHANGED <<storeVars, gmode, gurl, gretry>>

(* spotifyApiCall: the refresh after a 401 succeeded; the request is reissued *)
Refresh401Ok(p) ==
    /\ gpc[p] = "refresh401"
    /\ issued < MaxIssued
    /\ \E fresh \in BOOLEAN, e \in AnsweredExpiresIn :
         LET access == issued + 1
             rtNew  == IF fresh THEN issued + 1 ELSE 0
         IN  /\ tokens' = RefreshedStore(access, rtNew, grt[p], e)
             /\ setAt' = now
             /\ setE' = OrDefault(e)
             /\ issued' = issued + 1
             /\ lastWrite' = Write(p, "refresh", rtNew, grt[p])
             /\ GwSet(p, "fetch2", access, grt[p], NoRes,
                      trace[p] \o <<"xchgOk", "target">>)
    /\ UNCHANGED <<now, credsSet, advances, gmode, gurl, gretry>>

(* the catch block of the 401 branch leaves the store as it is *)
StoreAfter401Failure == tokens

(* spotifyApiCall: the refresh after a 401 failed *)
Refresh401Fail(p) ==
    /\ gpc[p] = "refresh401"
    /\ tokens' = StoreAfter401Failure
    /\ lastWrite' = lastWrite
    /\ GwSet(p, "ret", gtok[p], grt[p],
             Throw("Authentication failed: Token refresh unsuccessful"),
             Append(trace[p], "xchgFail"))
    /\ UNCHANGED <<now, credsSet, setAt, setE, advances, issued, gmode, gurl, gretry>>

(* variant: a 401 on the reissued request starts another refresh-and-retry *)
Fetch2RespRetryAgain(p) ==
    /\ gpc[p] = "fetch2"
    /\ \E s \in Statuses :
         IF s = 401 /\ gretry[p] /\ getRefreshToken(tokens) # 0 /\ credsSet
         THEN GwSet(p, "refresh401", gtok[p], getRefreshToken(tokens), NoRes,
                    trace[p] \o <<"r401", "xchg401">>)
         ELSE GwSet(p, "ret", gtok[p], grt[p], Resp(s),
                    Append(trace[p], IF s = 401 THEN "r401" ELSE "rOther"))
    /\ UNCHANGED <<storeVars, gmode, gurl, gretry>>

(* spotifyApiCall: the reissued request answered; its response is final *)
Fetch2Resp(p) ==
    /\ gpc[p] = "fetch2"
    /\ \E s \in Statuses :
         GwSet(p, "ret", gtok[p], grt[p], Resp(s),
               Append(trace[p], IF s = 401 THEN "r401" ELSE "rOther"))
    /\ UNCHANGED <<storeVars, gmode, gurl, gretry>>

(* spotifyApiCall: the reissued fetch threw inside the try block *)
Fetch2Throw(p) ==
    /\ gpc[p] = "fetch2"
    /\ GwSet(p, "ret", gtok[p], grt[p],
             Throw("Authentication failed: Token refresh unsuccessful"),
             Append(trace[p], "netErr"))
    /\ UNCHANGED <<storeVars, gmode, gurl, gretry>>

(* The steps of a gateway call in progress without a retry on 401 *)
GwStepOnce(p) ==
    \/ GvtRefreshOk(p) /\ UNCHANGED hVars
    \/ GvtRefreshFail(p) /\ UNCHANGED hVars
    \/ Fetch1Resp(p) /\ UNCHANGED hVars
    \/ Fetch1Throw(p) /\ UNCHANGED hVars

(* The steps of the refresh-and-retry branch *)
GwStepRetry(p) ==
    \/ Refresh401Ok(p) /\ UNCHANGED hVars
    \/ Refresh401Fail(p) /\ UNCHANGED hVars
    \/ Fetch2Resp(p) /\ UNCHANGED hVars
    \/ Fetch2Throw(p) /\ UNCHANGED hVars

----------------------------------------------------------------------------
(* Environment and entry points *)

(* Date.now() moves on by one of the given steps *)
Advance(steps) ==
    /\ advances < MaxAdvances
    /\ \E d \in steps : now' = now + d
    /\ advances' = advances + 1
    /\ UNCHANGED <<tokens, credsSet, setAt, setE, issued, lastWrite, gwVars, hVars>>

AdvanceFine == Advance(FineSteps)

AdvanceCoarse == Advance(CoarseSteps)

(* POST /api/spotify/token, success path: the exchanged pair is stored.
   The refresh token of the answer may be absent. *)
TokenExchanged ==
    /\ credsSet
    /\ issued < MaxIssued
    /\ \E hasRt \in BOOLEAN, e \in AnsweredExpiresIn :
         /\ tokens' = setTokens(issued + 1, IF hasRt THEN issued + 1 ELSE 0,
                                OrDefault(e), now)
         /\ setAt' = now
         /\ setE' = OrDefault(e)
         /\ lastWrite' = Write(0, "exchange", IF hasRt THEN issued + 1 ELSE 0, 0)
    /\ issued' = issued + 1
    /\ UNCHANGED <<now, credsSet, advances, gwVars, hVars>>

(* SpotifyTokenStorage.setTokens(accessToken, refreshToken, expiresIn) called
   on its own *)
StoreSet ==
    /\ \E r \in {0, 1}, e \in ExpiresInValues :
         /\ tokens' = setTokens(1, r, e, now)
         /\ setE' = e
         /\ lastWrite' = Write(0, "set", r, 0)
    /\ setAt' = now
    /\ UNCHANGED <<now, credsSet, advances, issued, gwVars, hVars>>

(* SpotifyTokenStorage.clearTokens() called on its own *)
StoreCleared ==
    /\ tokens # <<>>
    /\ tokens' = clearTokens
    /\ lastWrite' = Write(0, "clear", 0, 0)
    /\ UNCHANGED <<now, credsSet, setAt, setE, advances, issued, gwVars, hVars>>

(* A route calls spotifyApiCall(url, options, retryOn401) *)
GwCall(p) ==
    /\ hpc[p] = "idle"
    /\ \E retry \in BOOLEAN : Enter(p, "api", "target", retry)
    /\ hpc' = [hpc EXCEPT ![p] = "gateway"]
    /\ UNCHANGED <<now, credsSet, setAt, setE, advances, issued,
                   hloc, resp, playlistId, created, served>>

(* Locals of a route handler, with the history the properties read:
   spPlaylist / spImmediate / spCurrent are what Spotify held when it
   answered, called the targets spotifyApiCall was called for, failed the
   pieces whose fetch failed (and whether Spotify answered it), sent the
   number of requests sent to Spotify,
   noToken whether the store held no access token when the request came *)
NoLoc ==
    [route |-> "", playlistId |-> 0, items |-> <<>>, immediate |-> <<>>,
     allTracks |-> <<>>, spPlaylist |-> <<>>, spImmediate |-> <<>>,
     spCurrent |-> 0, called |-> {}, failed |-> {}, sent |-> 0,
     noToken |-> FALSE]

(* The HTTP response of a request; status 0 while none was sent *)
NoResp ==
    [status |-> 0, queue |-> <<>>, currently_playing |-> 0,
     playing |-> FALSE, track |-> 0]

InitCommon ==
    /\ tokens = <<>>
    /\ now = 0
    /\ setAt = 0
    /\ setE = 0
    /\ advances = 0
    /\ issued = 0
    /\ lastWrite = NoWrite
    /\ playlistId = 0
    /\ created = 0
    /\ served = 0
    /\ hpc = [p \in Procs |-> "idle"]
    /\ gpc = [p \in Procs |-> "idle"]
    /\ gmode = [p \in Procs |-> "api"]
    /\ gurl = [p \in Procs |-> ""]
    /\ gretry = [p \in Procs |-> FALSE]
    /\ gtok = [p \in Procs |-> 0]
    /\ grt = [p \in Procs |-> 0]
    /\ gres = [p \in Procs |-> NoRes]
    /\ hloc = [p \in Procs |-> NoLoc]
    /\ resp = [p \in Procs |-> NoResp]
    /\ trace = [p \in Procs |-> <<>>]

(* The token store under a running clock *)
InitTok == InitCommon /\ credsSet = TRUE

NextTok == StoreSet \/ StoreCleared \/ AdvanceFine

SpecTok == InitTok /\ [][NextTok]_vars

(* Concurrent gateway calls over the shared store *)
InitGw == InitCommon /\ credsSet \in BOOLEAN

NextGw ==
    \/ TokenExchanged
    \/ AdvanceCoarse
    \/ \E p \in Procs : GwCall(p)
    \/ \E p \in Procs : GwStepOnce(p)
    \/ \E p \in Procs : GwStepRetry(p)

SpecGw == InitGw /\ [][NextGw]_vars

----------------------------------------------------------------------------
(* C4: a record stored at setAt with expiresIn setE is reported expired
   exactly from setAt + (setE - 300) s on, and an empty store is always
   reported expired; 301 s before the expiry instant it is not yet expired,
   299 s before it is. *)
ExpiryMargin ==
    /\ tokens = <<>> => isTokenExpired(tokens, now)
    /\ tokens # <<>> =>
         /\ isTokenExpired(tokens, now) <=> now >= setAt + (setE - 300) * 1000
         /\ now = setAt + (setE - 301) * 1000 => ~isTokenExpired(tokens, now)
         /\ now = setAt + (setE - 299) * 1000 => isTokenExpired(tokens, now)

(* one second before the margin a stored token is still reported valid *)
ExpiryMarginWitness ==
    /\ tokens # <<>>
    /\ now > setAt
    /\ now = setAt + (setE - 301) * 1000
    /\ ~isTokenExpired(tokens, now)

----------------------------------------------------------------------------
(* Reading the history of a gateway call *)

Count(tr, ev) == Cardinality({i \in 1..Len(tr) : tr[i] = ev})

Has(tr, ev) == \E i \in 1..Len(tr) : tr[i] = ev

Last(tr) == tr[Len(tr)]

(* ev is directly followed by one of nexts *)
Followed(tr, ev, nexts) ==
    \E i \in 1..(Len(tr) - 1) : tr[i] = ev /\ tr[i + 1] \in nexts

AuthFailed == Throw("Authentication failed: Token refresh unsuccessful")

NoTokenError == Throw("No valid access token available")

(* the call got 401 on its first request while a refresh token was stored,
   so that the refresh-and-retry branch was taken *)
Retried401(p) == Followed(trace[p], "r401", {"xchg401", "xchgFail"})

(* the refresh on expiry at the start of the call failed *)
ExpiryRefreshFailed(p) ==
    /\ Len(trace[p]) >= 2
    /\ trace[p][1] = "startExpired"
    /\ \/ trace[p][2] = "xchgFail"
       \/ Len(trace[p]) >= 3 /\ trace[p][2] = "xchg" /\ trace[p][3] = "xchgFail"

----------------------------------------------------------------------------
(* C1 as stated: a call with retryOn401 whose first response is 401 while a
   refresh token is stored makes exactly one exchange, updates the store and
   reissues the request exactly once; no call sends more than two requests
   to the target. *)
SingleRetryAsStated ==
    \A p \in Procs :
      /\ Count(trace[p], "target") <= 2
      /\ (gmode[p] = "api" /\ gretry[p] /\ gpc[p] = "ret" /\ Retried401(p)) =>
           /\ Count(trace[p], "xchg401") = 1
           /\ Followed(trace[p], "xchg401", {"xchgOk"})
           /\ Count(trace[p], "target") = 2

(* C1: a call with retryOn401 whose first response is 401 while a refresh
   token is stored attempts exactly one exchange; when the exchange succeeds
   the store holds the new pair and the request is reissued exactly once,
   the outcome of the second attempt being final even when it is 401 again;
   when the exchange fails the call fails without reissuing.  No call sends
   more than two requests to the target or refreshes twice after a 401. *)
SingleRetry ==
    \A p \in Procs :
      /\ Count(trace[p], "target") <= 2
      /\ Count(trace[p], "xchg401") <= 1
      /\ (gpc[p] = "fetch2" /\ lastWrite.by = p) =>
           lastWrite.op = "refresh" /\ getAccessToken(tokens) = gtok[p]
      /\ (gmode[p] = "api" /\ gretry[p] /\ gpc[p] = "ret" /\ Retried401(p)) =>
           /\ Count(trace[p], "xchg401") = 1
           /\ IF Followed(trace[p], "xchg401", {"xchgOk"})
              THEN /\ Count(trace[p], "target") = 2
                   /\ Last(trace[p]) = "r401" => gres[p] = Resp(401)
                   /\ Last(trace[p]) = "rOther" =>
                        gres[p].kind = "resp" /\ gres[p].status # 401
                   /\ Last(trace[p]) = "netErr" => gres[p] = AuthFailed
              ELSE /\ Count(trace[p], "target") = 1
                   /\ gres[p] = AuthFailed

(* the reissued request was answered 401 again and that answer was returned *)
SingleRetryWitness ==
    \E p \in Procs :
      /\ gpc[p] = "ret" /\ gretry[p]
      /\ trace[p] = <<"startFresh", "target", "r401", "xchg401", "xchgOk",
                      "target", "r401">>
      /\ gres[p] = Resp(401)

(* C2: in a gateway call that starts with isTokenExpired() true, no request
   goes to the target before a refresh-token exchange was attempted; when
   that exchange fails the store is cleared, the call fails with the
   authentication error and no request to the target was sent. *)
ExpiredRefreshFirst ==
    \A p \in Procs :
      (gmode[p] = "api" /\ trace[p] # <<>> /\ trace[p][1] = "startExpired") =>
        /\ \A i \in 1..Len(trace[p]) :
             trace[p][i] = "target" =>
               \E j \in 1..(i - 1) : trace[p][j] = "xchg"
        /\ ExpiryRefreshFailed(p) =>
             /\ gpc[p] = "ret"
             /\ gres[p] = NoTokenError
             /\ Count(trace[p], "target") = 0
             /\ lastWrite.by = p => tokens = <<>>

(* an exchange on expiry was sent and failed, and the call has failed *)
ExpiredRefreshFirstWitness ==
    \E p \in Procs :
      /\ gmode[p] = "api"
      /\ trace[p] = <<"startExpired", "xchg", "xchgFail">>
      /\ gres[p] = NoTokenError
      /\ tokens = <<>>

(* C3 as stated: the step that handles a failed refresh-token exchange, on
   expiry as well as after a 401, leaves the store without a record. *)
FailedRefreshClearsStore ==
    [][\A p \in Procs :
         (gpc[p] \in {"gvtRefresh", "refresh401"} /\ gpc'[p] = "ret"
            /\ Last(trace'[p]) = "xchgFail")
         => tokens' = <<>>]_vars

(* C5: after a successful refresh the stored refresh token is the answered
   one when the answer carries one, else the one used for the exchange, and
   is never absent. *)
RefreshKeepsRefreshToken ==
    lastWrite.op = "refresh" =>
      /\ tokens # <<>>
      /\ lastWrite.rt # 0 => getRefreshToken(tokens) = lastWrite.rt
      /\ lastWrite.rt = 0 => getRefreshToken(tokens) = lastWrite.used
      /\ getRefreshToken(tokens) # 0

(* a refresh whose answer carried no refresh token kept the previous one *)
RefreshKeepsRefreshTokenWitness ==
    /\ lastWrite.op = "refresh"
    /\ lastWrite.rt = 0
    /\ lastWrite.used # 0
    /\ getRefreshToken(tokens) = lastWrite.used

(* C6: the store holds the pair of the refresh that completed last, and a
   request whose own refresh completed earlier goes on with an access token
   that is not the stored one. *)
LastWriteWins ==
    \A p \in Procs :
      (lastWrite.by = p /\ lastWrite.op = "refresh" /\ Has(trace[p], "xchgOk")
         /\ gpc[p] \in {"fetch1", "fetch2"}) =>
        /\ getAccessToken(tokens) = gtok[p]
        /\ \A q \in Procs \ {p} :
             (Has(trace[q], "xchgOk") /\ gpc[q] \in {"fetch1", "fetch2"}) =>
               gtok[q] # getAccessToken(tokens)

(* both requests found the one stored token expired (a single clock advance,
   a single code exchange), so both exchanges were in flight together; both
   succeeded and request 1 goes on with a token that is not the stored one *)
RefreshRaceWitness ==
    /\ advances = 1 /\ issued = 3
    /\ trace[1] = <<"startExpired", "xchg", "xchgOk", "target">>
    /\ trace[2] = <<"startExpired", "xchg", "xchgOk", "target">>
    /\ gpc[1] = "fetch1" /\ gpc[2] = "fetch1"
    /\ lastWrite.by = 2
    /\ getAccessToken(tokens) = gtok[2]
    /\ gtok[1] # getAccessToken(tokens)

----------------------------------------------------------------------------
(* What Spotify holds.  A URI is a number (spotify:track:<n>), 0 is none. *)

Uris == {1, 2, 3}

(* tracks?limit=100: the page size of the playlist listing *)
PageLimit == 100

Track(u)  == [uri |-> u, is_local |-> FALSE, has_track |-> TRUE]
LocalFile == [uri |-> 9, is_local |-> TRUE,  has_track |-> TRUE]
Removed   == [uri |-> 0, is_local |-> FALSE, has_track |-> FALSE]

SeqsUpTo(S, n) == UNION {[1..k -> S] : k \in 0..n}

(* a playlist longer than one page: PageLimit distinct tracks and one more *)
LongPlaylist == [i \in 1..(PageLimit + 1) |-> Track(100 + i)]

(* The managed playlist as Spotify holds it *)
Playlists ==
    SeqsUpTo({Track(u) : u \in Uris}, MaxPlaylistLen)
      \cup {<<LocalFile, Track(1)>>, <<Removed, Track(2)>>, LongPlaylist}

(* The player queue as Spotify holds it *)
Immediates == SeqsUpTo(Uris, MaxImmediateLen)

(* A few of each, for the runs that follow the handlers through every
   outcome of every call *)
FewPlaylists == {<<>>, <<Track(1), Track(2)>>}
FewImmediates == {<<>>, <<2>>}

(* The page GET /playlists/{id}/tracks?limit=100 answers *)
Page(pl) == SubSeq(pl, 1, IF Len(pl) < PageLimit THEN Len(pl) ELSE PageLimit)

MapSeq(sq, F(_)) == [i \in 1..Len(sq) |-> F(sq[i])]

UrisOf(sq) == {sq[i].uri : i \in 1..Len(sq)}

(* queueData.queue mapped to tracks marked is_immediate *)
ImmediateQueue(imm) ==
    LET Mark(u) == [uri |-> u, is_immediate |-> TRUE] IN MapSeq(imm, Mark)

(* variant: the two lists are concatenated without the filter *)
MergeQueueNoFilter(immediateQueue, items) ==
    LET Usable(it) == it.has_track /\ ~it.is_local
        Mark(it)   == [uri |-> it.uri, is_immediate |-> FALSE]
    IN  immediateQueue \o MapSeq(SelectSeq(items, Usable), Mark)

(* allTracks: the immediate queue, then the playlist tracks whose uri is not
   in the immediate queue *)
MergeQueue(immediateQueue, items) ==
    LET Usable(it)     == it.has_track /\ ~it.is_local
        Mark(it)       == [uri |-> it.uri, is_immediate |-> FALSE]
        playlistTracks == MapSeq(SelectSeq(items, Usable), Mark)
        immediateUris  == UrisOf(immediateQueue)
        NotQueued(t)   == t.uri \notin immediateUris
    IN  immediateQueue \o SelectSeq(playlistTracks, NotQueued)

----------------------------------------------------------------------------
(* Route handlers *)

HSet(p, pc, loc, r) ==
    /\ hpc'  = [hpc  EXCEPT ![p] = pc]
    /\ hloc' = [hloc EXCEPT ![p] = loc]
    /\ resp' = [resp EXCEPT ![p] = r]

(* the handler calls the gateway with retryOn401 = false, or
   getValidServerToken (mode "gvt") *)
Call(p, mode, url) ==
    /\ Enter(p, mode, url, FALSE)
    /\ UNCHANGED <<now, credsSet, setAt, setE, advances, issued>>

(* the handler answers and ends *)
Finish(p) ==
    /\ GwSet(p, "idle", 0, 0, NoRes, <<>>)
    /\ served' = served + 1
    /\ UNCHANGED <<storeVars, gmode, gurl, gretry>>

Returned(p, pc) == hpc[p] = pc /\ gpc[p] = "ret"

RespOk(p) == gres[p].kind = "resp" /\ IsOk(gres[p].status)

(* requests a gateway call sent to Spotify, API and accounts service *)
Sent(tr) == Count(tr, "target") + Count(tr, "xchg") + Count(tr, "xchg401")

(* the handler's locals with the finished gateway call accounted for *)
Acc(p) ==
    [hloc[p] EXCEPT
       !.sent = @ + Sent(trace[p]),
       !.called = IF gmode[p] = "api" THEN @ \cup {gurl[p]} ELSE @]

(* piece failed; answered tells whether Spotify answered the fetch (with a
   failure status or an unusable body) or the gateway call returned no
   response at all *)
Failing(loc, piece, answered) ==
    [loc EXCEPT !.failed = @ \cup {[piece |-> piece, answered |-> answered]}]

Json(status, queue, cur, playing, track) ==
    [status |-> status, queue |-> queue, currently_playing |-> cur,
     playing |-> playing, track |-> track]

(* variant: the catch block answers 500, as the search route does *)
QueueErrorResponse500 == Json(500, <<>>, 0, FALSE, 0)

(* res.json({ queue: [], currently_playing: null }) *)
QueueErrorResponse == Json(200, <<>>, 0, FALSE, 0)

(* res.json({ playing: false, track: null }) *)
NotPlayingResponse == Json(200, <<>>, 0, FALSE, 0)

(* GET /api/spotify/queue fails as a whole: its catch block, or the early
   return on a playlist fetch that is not ok *)
QueueFail(p, piece) ==
    /\ HSet(p, "done", Failing(Acc(p), piece, gres[p].kind = "resp"), QueueErrorResponse)
    /\ Finish(p)
    /\ UNCHANGED <<playlistId, created>>

(* A new request arrives on slot p *)
NextRequest(p) ==
    /\ hpc[p] = "done"
    /\ served < MaxRequests
    /\ HSet(p, "idle", NoLoc, NoResp)
    /\ UNCHANGED <<storeVars, gwVars, playlistId, created, served>>

(* GET /api/spotify/queue: getOrCreateRadioPlaylist reads the cached id *)
QueueStart(p) ==
    /\ hpc[p] = "idle"
    /\ IF playlistId # 0
       THEN /\ Call(p, "api", "verify")
            /\ HSet(p, "q_verify", [NoLoc EXCEPT !.route = "queue"], NoResp)
       ELSE /\ Call(p, "gvt", "")
            /\ HSet(p, "q_token", [NoLoc EXCEPT !.route = "queue"], NoResp)
    /\ UNCHANGED <<playlistId, created, served>>

(* getOrCreateRadioPlaylist: the verification GET returned *)
QueueVerified(p) ==
    /\ Returned(p, "q_verify")
    /\ IF RespOk(p)
       THEN /\ Call(p, "api", "tracks")
            /\ HSet(p, "q_tracks", [Acc(p) EXCEPT !.playlistId = playlistId], NoResp)
            /\ UNCHANGED playlistId
       ELSE /\ Call(p, "gvt", "")
            /\ HSet(p, "q_token", Acc(p), NoResp)
            /\ playlistId' = IF gres[p].kind = "throw" THEN 0 ELSE playlistId
    /\ UNCHANGED <<created, served>>

(* getOrCreateRadioPlaylist: getValidServerToken returned *)
QueueToken(p) ==
    /\ Returned(p, "q_token")
    /\ IF gres[p].status = 0
       THEN QueueFail(p, "playlist")
       ELSE /\ Call(p, "api", "me")
            /\ HSet(p, "q_me", Acc(p), NoResp)
            /\ UNCHANGED <<playlistId, created, served>>

(* getOrCreateRadioPlaylist: GET /v1/me returned *)
QueueMe(p) ==
    /\ Returned(p, "q_me")
    /\ \/ /\ RespOk(p) /\ gres[p].status # 204
          /\ Call(p, "api", "create")
          /\ HSet(p, "q_create", Acc(p), NoResp)
          /\ UNCHANGED <<playlistId, created, served>>
       \/ /\ ~RespOk(p) \/ gres[p].status = 204
          /\ QueueFail(p, "playlist")

(* getOrCreateRadioPlaylist: POST /v1/users/{id}/playlists returned *)
QueueCreate(p) ==
    /\ Returned(p, "q_create")
    /\ \/ /\ RespOk(p) /\ gres[p].status # 204
          /\ created < MaxCreated
          /\ created' = created + 1
          /\ playlistId' = created + 1
          /\ Call(p, "api", "tracks")
          /\ HSet(p, "q_tracks", [Acc(p) EXCEPT !.playlistId = created + 1], NoResp)
          /\ UNCHANGED served
       \/ /\ ~RespOk(p) \/ gres[p].status = 204
          /\ QueueFail(p, "playlist")

(* GET /playlists/{id}/tracks?limit=100 returned *)
QueueTracks(p, playlists) ==
    /\ Returned(p, "q_tracks")
    /\ \/ /\ RespOk(p) /\ gres[p].status # 204
          /\ \E pl \in playlists :
               HSet(p, "q_queue",
                    [Acc(p) EXCEPT !.items = Page(pl), !.spPlaylist = pl], NoResp)
          /\ Call(p, "api", "queue")
          /\ UNCHANGED <<playlistId, created, served>>
       \/ /\ ~RespOk(p) \/ gres[p].status = 204
          /\ QueueFail(p, "tracks")

(* GET /v1/me/player/queue returned; allTracks is computed *)
QueueImmediate(p, immediates) ==
    /\ Returned(p, "q_queue")
    /\ \/ /\ RespOk(p) /\ gres[p].status # 204
          /\ \E imm \in immediates :
               HSet(p, "q_current",
                    [Acc(p) EXCEPT
                       !.immediate = ImmediateQueue(imm),
                       !.spImmediate = imm,
                       !.allTracks = MergeQueue(ImmediateQueue(imm), hloc[p].items)],
                    NoResp)
       \/ /\ ~RespOk(p) \/ gres[p].status = 204
          /\ HSet(p, "q_current",
                  [Failing(Acc(p), "queue", gres[p].kind = "resp") EXCEPT
                     !.allTracks = MergeQueue(<<>>, hloc[p].items)],
                  NoResp)
    /\ Call(p, "api", "current")
    /\ UNCHANGED <<playlistId, created, served>>

(* GET /v1/me/player/currently-playing returned; the response is sent *)
QueueCurrent(p) ==
    /\ Returned(p, "q_current")
    /\ \/ /\ RespOk(p) /\ gres[p].status # 204
          /\ \E item \in Uris \cup {0} :
               HSet(p, "done", [Acc(p) EXCEPT !.spCurrent = item],
                    Json(200, hloc[p].allTracks, item, FALSE, 0))
       \/ /\ ~RespOk(p) \/ gres[p].status = 204
          /\ HSet(p, "done", Failing(Acc(p), "current", gres[p].kind = "resp"),
                  Json(200, hloc[p].allTracks, 0, FALSE, 0))
    /\ Finish(p)
    /\ UNCHANGED <<playlistId, created>>

(* GET /api/spotify/now-playing: getValidServerToken is called *)
NowPlayingStart(p) ==
    /\ hpc[p] = "idle"
    /\ Call(p, "gvt", "")
    /\ HSet(p, "n_token",
            [NoLoc EXCEPT !.route = "now-playing",
                          !.noToken = (getAccessToken(tokens) = 0)],
            NoResp)
    /\ UNCHANGED <<playlistId, created, served>>

(* now-playing: getValidServerToken returned *)
NowPlayingToken(p) ==
    /\ Returned(p, "n_token")
    /\ IF gres[p].status = 0
       THEN /\ HSet(p, "done", Acc(p), NotPlayingResponse)
            /\ Finish(p)
       ELSE /\ Call(p, "api", "current")
            /\ HSet(p, "n_current", Acc(p), NoResp)
            /\ UNCHANGED served
    /\ UNCHANGED <<playlistId, created>>

(* now-playing: GET /v1/me/player/currently-playing returned *)
NowPlayingCurrent(p) ==
    /\ Returned(p, "n_current")
    /\ \/ /\ RespOk(p) /\ gres[p].status # 204
          /\ \E is_playing \in BOOLEAN, item \in Uris \cup {0} :
               HSet(p, "done", [Acc(p) EXCEPT !.spCurrent = item],
                    Json(200, <<>>, 0, is_playing, item))
       \/ /\ ~RespOk(p) \/ gres[p].status = 204
          /\ HSet(p, "done", Failing(Acc(p), "current", gres[p].kind = "resp"), NotPlayingResponse)
    /\ Finish(p)
    /\ UNCHANGED <<playlistId, created>>

(* POST /api/spotify/token handled between two requests of the slot *)
SetupBetween(p) == hpc[p] \in {"idle", "done"} /\ TokenExchanged

(* One request at a time on slot 1, over a store that is set up and ages *)
InitQ == InitCommon /\ credsSet \in BOOLEAN

NextQ ==
    \/ SetupBetween(1)
    \/ AdvanceCoarse
    \/ GwStepOnce(1)
    \/ NextRequest(1)
    \/ QueueStart(1)
    \/ QueueVerified(1)
    \/ QueueToken(1)
    \/ QueueMe(1)
    \/ QueueCreate(1)
    \/ QueueTracks(1, FewPlaylists)
    \/ QueueImmediate(1, FewImmediates)
    \/ QueueCurrent(1)
    \/ NowPlayingStart(1)
    \/ NowPlayingToken(1)
    \/ NowPlayingCurrent(1)

SpecQ == InitQ /\ [][NextQ]_vars

(* POST /api/spotify/token handled once, before the first request *)
SetupOnce(p) == tokens = <<>> /\ hpc[p] = "idle" /\ TokenExchanged

(* the fetch of a gateway call returns *)
GwFetch(p) ==
    \/ Fetch1Resp(p) /\ UNCHANGED hVars
    \/ Fetch1Throw(p) /\ UNCHANGED hVars

(* The queue view over every playlist and player queue, the store set up
   once and the token fresh *)
InitView == InitCommon /\ credsSet = TRUE

NextView ==
    \/ SetupOnce(1)
    \/ GwFetch(1)
    \/ NextRequest(1)
    \/ QueueStart(1)
    \/ QueueVerified(1)
    \/ QueueToken(1)
    \/ QueueMe(1)
    \/ QueueCreate(1)
    \/ QueueTracks(1, Playlists)
    \/ QueueImmediate(1, Immediates)
    \/ QueueCurrent(1)

SpecView == InitView /\ [][NextView]_vars

----------------------------------------------------------------------------
(* Reading the answer of GET /api/spotify/queue *)

QueueAnswered(p) == hloc[p].route = "queue" /\ resp[p].status # 0

NoRepeat(sq) == \A i, j \in 1..Len(sq) : i # j => sq[i] # sq[j]

UriSeq(sq) == [i \in 1..Len(sq) |-> sq[i].uri]

(* the tracks of a playlist listing that can be shown: not removed, not local *)
Shown(pl) ==
    LET Usable(it) == it.has_track /\ ~it.is_local IN SelectSeq(pl, Usable)

(* the immediate uris, then the uris of the playlist tracks not among them *)
Reconciled(imm, pl) ==
    LET Fresh(u) == \A i \in 1..Len(imm) : imm[i] # u
    IN  imm \o SelectSeq(UriSeq(Shown(pl)), Fresh)

(* C7 as stated: whatever the player queue and the playlist hold, no URI
   occurs twice in the queue array of the answer. *)
NoUriTwiceAsStated ==
    \A p \in Procs : QueueAnswered(p) => NoRepeat(UriSeq(resp[p].queue))

(* C7: in the queue array of the answer no entry taken from the playlist has
   the URI of an entry of the immediate queue, and no URI occurs twice
   whenever neither the immediate queue nor the playlist page holds a URI
   twice itself. *)
NoUriTwice ==
    \A p \in Procs :
      QueueAnswered(p) =>
        LET q == resp[p].queue IN
        /\ \A i, j \in 1..Len(q) :
             (q[i].is_immediate /\ ~q[j].is_immediate) => q[i].uri # q[j].uri
        /\ (NoRepeat(hloc[p].spImmediate) /\ NoRepeat(UriSeq(Shown(hloc[p].items))))
             => NoRepeat(UriSeq(q))

(* immediate [1, 2] and playlist [2, 3, 1] were answered as [1, 2, 3] *)
NoUriTwiceWitness ==
    \E p \in Procs :
      /\ QueueAnswered(p)
      /\ hloc[p].spImmediate = <<1, 2>>
      /\ hloc[p].spPlaylist = <<Track(2), Track(3), Track(1)>>
      /\ UriSeq(resp[p].queue) = <<1, 2, 3>>

(* C8 as stated: when every sub-fetch succeeded the queue of the answer is
   the immediate queue followed by every playlist track whose URI is not in
   it, in playlist order, whatever the length of the playlist. *)
QueueViewComplete ==
    \A p \in Procs :
      (QueueAnswered(p) /\ hloc[p].failed = {}
         /\ {"tracks", "queue", "current"} \subseteq hloc[p].called) =>
        UriSeq(resp[p].queue) = Reconciled(hloc[p].spImmediate, hloc[p].spPlaylist)

FailedPieces(p) == {f.piece : f \in hloc[p].failed}

(* C9 as stated: a sub-fetch that Spotify answered with a failure empties
   only its own piece: the immediate queue and the current track are still
   asked for, and a piece whose own fetch did not fail is answered as
   Spotify gave it. *)
BestEffortPieces ==
    \A p \in Procs :
      QueueAnswered(p) =>
        /\ (\A f \in hloc[p].failed : f.answered) =>
             {"queue", "current"} \subseteq hloc[p].called
        /\ "queue" \notin FailedPieces(p) =>
             SubSeq(UriSeq(resp[p].queue), 1, Len(hloc[p].spImmediate))
               = hloc[p].spImmediate
        /\ "current" \notin FailedPieces(p) =>
             resp[p].currently_playing = hloc[p].spCurrent

(* C10: the queue and now-playing routes answer nothing but 200, and a
   now-playing request that finds no token stored answers playing false,
   track null without a request to Spotify. *)
ReadsAnswer200 ==
    \A p \in Procs :
      /\ resp[p].status \in {0, 200}
      /\ hpc[p] = "done" => resp[p].status = 200
      /\ (hloc[p].route = "now-playing" /\ hloc[p].noToken) =>
           /\ hloc[p].sent + Sent(trace[p]) = 0
           /\ hpc[p] = "done" => resp[p] = NotPlayingResponse

(* a queue request failed as a whole and a now-playing request without a
   token were both answered *)
ReadsAnswer200Witness ==
    \E p \in Procs :
      /\ hpc[p] = "done"
      /\ hloc[p].route = "now-playing"
      /\ hloc[p].noToken
      /\ resp[p] = NotPlayingResponse
      /\ served = 2

----------------------------------------------------------------------------
(* POST /api/spotify/queue, the revision that writes to the player queue and
   to the managed playlist *)

(* an answer that carries nothing but its status; 200 is { success: true } *)
Status(s) == Json(s, <<>>, 0, FALSE, 0)

(* req.body: songName and uri, 0 when absent *)
EnqBodies == {[songName |-> n, uri |-> u] : n \in {0, 7}, u \in {0, 1}}

(* searchData.tracks.items as Spotify answers it *)
SearchResults == {<<>>, <<2>>, <<3, 2>>}

(* Locals of the enqueue handler, with the history the properties read:
   log the targets of the requests it sent to the Spotify API in order,
   searches the spotifyApiCall(searchUrl) calls made, found whether the
   search answered no item ("none") or some ("some"), first the uri of its
   first item, queuedUri / addedUri the
   uri carried by the player-queue append and the playlist append,
   addOk whether the playlist append was answered ok, session what the
   last GET /v1/me/player told: "" not read, "playing", "paused", "none" *)
EnqLoc(body) ==
    [route |-> "enqueue", songName |-> body.songName, uri |-> body.uri,
     trackUri |-> 0, found |-> "", first |-> 0, playlistId |-> 0, queueAdded |-> FALSE,
     addOk |-> FALSE, queuedUri |-> 0, addedUri |-> 0, session |-> "",
     searches |-> 0, called |-> {}, sent |-> 0, log |-> <<>>]

(* the handler's locals with the requests of the finished gateway call logged *)
Logged(p) ==
    [Acc(p) EXCEPT
       !.log = @ \o [i \in 1..Count(trace[p], "target") |-> gurl[p]]]

(* the handler calls the gateway with the default retryOn401 = true *)
CallRetry(p, url) ==
    /\ Enter(p, "api", url, TRUE)
    /\ UNCHANGED <<now, credsSet, setAt, setE, advances, issued>>

(* the handler answers with status s and ends *)
Answer(p, loc, s) ==
    /\ HSet(p, "done", loc, Status(s))
    /\ Finish(p)
    /\ UNCHANGED <<playlistId, created>>

(* variant: a song name is searched for even when a uri came with it *)
NeedsSearchByName(songName, uri) == songName # 0

(* if (songName && !uri) *)
NeedsSearch(songName, uri) == songName # 0 /\ uri = 0

(* variant: a failed playlist append is never fatal *)
AddFailureNeverFatal(queueAdded) == FALSE

(* a playlist append that is not ok throws unless queueAdded *)
AddFailureFatal(queueAdded) == ~queueAdded

(* variant: a paused session is started on the playlist context *)
PlayRequestWithContext(queueAdded, isPlaying, inContext) ==
    IF queueAdded
    THEN IF ~isPlaying THEN "playContext" ELSE ""
    ELSE IF ~inContext THEN "playContext" ELSE ""

(* the play request that follows an ok GET /v1/me/player: "play" resumes,
   "playContext" starts the playlist, "" is none *)
PlayRequest(queueAdded, isPlaying, inContext) ==
    IF queueAdded
    THEN IF ~isPlaying THEN "play" ELSE ""
    ELSE IF ~inContext THEN "playContext" ELSE ""

(* getOrCreateRadioPlaylist is entered by the enqueue handler *)
EnqGetPlaylist(p, loc) ==
    IF playlistId # 0
    THEN /\ Call(p, "api", "verify")
         /\ HSet(p, "e_verify", loc, NoResp)
    ELSE /\ Call(p, "gvt", "")
         /\ HSet(p, "e_ptoken", loc, NoResp)

(* the body is read; getValidServerToken is called *)
EnqStart(p) ==
    /\ hpc[p] = "idle"
    /\ \E body \in EnqBodies :
         IF body.songName = 0 /\ body.uri = 0
         THEN Answer(p, EnqLoc(body), 400)
         ELSE /\ Call(p, "gvt", "")
              /\ HSet(p, "e_token", EnqLoc(body), NoResp)
              /\ UNCHANGED <<playlistId, created, served>>

(* getValidServerToken returned: 401 without a token, else the uri is
   resolved, by a search when only a name was given *)
EnqToken(p) ==
    /\ Returned(p, "e_token")
    /\ LET loc == [Logged(p) EXCEPT !.trackUri = hloc[p].uri] IN
       IF gres[p].status = 0
       THEN Answer(p, loc, 401)
       ELSE /\ IF NeedsSearch(loc.songName, loc.uri)
               THEN /\ CallRetry(p, "search")
                    /\ HSet(p, "e_search", [loc EXCEPT !.searches = @ + 1], NoResp)
               ELSE EnqGetPlaylist(p, loc)
            /\ UNCHANGED <<playlistId, created, served>>

(* the search returned *)
EnqSearch(p) ==
    /\ Returned(p, "e_search")
    /\ \/ /\ ~RespOk(p) \/ gres[p].status = 204
          /\ Answer(p, Logged(p), 500)
       \/ /\ RespOk(p) /\ gres[p].status # 204
          /\ \E items \in SearchResults :
               IF Len(items) = 0
               THEN Answer(p, [Logged(p) EXCEPT !.found = "none"], 404)
               ELSE /\ EnqGetPlaylist(p, [Logged(p) EXCEPT !.trackUri = items[1],
                                                          !.found = "some",
                                                          !.first = items[1]])
                    /\ UNCHANGED <<playlistId, created, served>>

(* the playlist id is known: GET /v1/me/player is asked first *)
EnqHavePlaylist(p, loc, id) ==
    /\ Call(p, "api", "player")
    /\ HSet(p, "e_player1", [loc EXCEPT !.playlistId = id], NoResp)

(* getOrCreateRadioPlaylist: the verification GET returned *)
EnqVerified(p) ==
    /\ Returned(p, "e_verify")
    /\ IF RespOk(p)
       THEN /\ EnqHavePlaylist(p, Logged(p), playlistId)
            /\ UNCHANGED playlistId
       ELSE /\ Call(p, "gvt", "")
            /\ HSet(p, "e_ptoken", Logged(p), NoResp)
            /\ playlistId' = IF gres[p].kind = "throw" THEN 0 ELSE playlistId
    /\ UNCHANGED <<created, served>>

(* getOrCreateRadioPlaylist: getValidServerToken returned *)
EnqPlaylistToken(p) ==
    /\ Returned(p, "e_ptoken")
    /\ IF gres[p].status = 0
       THEN Answer(p, Logged(p), 500)
       ELSE /\ Call(p, "api", "me")
            /\ HSet(p, "e_me", Logged(p), NoResp)
            /\ UNCHANGED <<playlistId, created, served>>

(* getOrCreateRadioPlaylist: GET /v1/me returned *)
EnqMe(p) ==
    /\ Returned(p, "e_me")
    /\ \/ /\ RespOk(p) /\ gres[p].status # 204
          /\ Call(p, "api", "create")
          /\ HSet(p, "e_create", Logged(p), NoResp)
          /\ UNCHANGED <<playlistId, created, served>>
       \/ /\ ~RespOk(p) \/ gres[p].status = 204
          /\ Answer(p, Logged(p), 500)

(* getOrCreateRadioPlaylist: POST /v1/users/{id}/playlists returned *)
EnqCreate(p) ==
    /\ Returned(p, "e_create")
    /\ \/ /\ RespOk(p) /\ gres[p].status # 204
          /\ created < MaxCreated
          /\ created' = created + 1
          /\ playlistId' = created + 1
          /\ EnqHavePlaylist(p, Logged(p), created + 1)
          /\ UNCHANGED served
       \/ /\ ~RespOk(p) \/ gres[p].status = 204
          /\ Answer(p, Logged(p), 500)

(* step 2 is entered: POST /playlists/{id}/tracks with uris [trackUri] *)
EnqToAdd(p, loc) ==
    /\ CallRetry(p, "add")
    /\ HSet(p, "e_add", [loc EXCEPT !.addedUri = loc.trackUri], NoResp)
    /\ UNCHANGED <<playlistId, created, served>>

(* step 1: the player check returned; whatever it answered the uri is
   appended to the player queue, and a throw leaves the try block *)
EnqPlayer1(p) ==
    /\ Returned(p, "e_player1")
    /\ IF gres[p].kind = "throw"
       THEN EnqToAdd(p, Logged(p))
       ELSE /\ Call(p, "api", "queueAdd")
            /\ HSet(p, "e_qadd", [Logged(p) EXCEPT !.queuedUri = hloc[p].trackUri],
                    NoResp)
            /\ UNCHANGED <<playlistId, created, served>>

(* step 1: POST /v1/me/player/queue?uri= returned *)
EnqQueueAdd(p) ==
    /\ Returned(p, "e_qadd")
    /\ EnqToAdd(p, [Logged(p) EXCEPT !.queueAdded = RespOk(p)])

(* step 2: the playlist append returned *)
EnqAdd(p) ==
    /\ Returned(p, "e_add")
    /\ LET loc == [Logged(p) EXCEPT !.addOk = RespOk(p)] IN
       IF gres[p].kind = "throw" \/ (~RespOk(p) /\ AddFailureFatal(loc.queueAdded))
       THEN Answer(p, loc, 500)
       ELSE /\ Call(p, "api", "player")
            /\ HSet(p, "e_player2", loc, NoResp)
            /\ UNCHANGED <<playlistId, created, served>>

(* playback is ensured: GET /v1/me/player returned.  A 204 is ok, its empty
   body makes json() throw and the catch block ignores it. *)
EnqPlayer2(p) ==
    /\ Returned(p, "e_player2")
    /\ \/ /\ RespOk(p) /\ gres[p].status # 204
          /\ \E isPlaying \in BOOLEAN, inContext \in BOOLEAN :
               LET loc  == [Logged(p) EXCEPT
                              !.session = IF isPlaying THEN "playing" ELSE "paused"]
                   play == PlayRequest(loc.queueAdded, isPlaying, inContext)
               IN  IF play = ""
                   THEN Answer(p, loc, 200)
                   ELSE /\ Call(p, "api", play)
                        /\ HSet(p, "e_play", loc, NoResp)
                        /\ UNCHANGED <<playlistId, created, served>>
       \/ /\ RespOk(p) /\ gres[p].status = 204
          /\ Answer(p, [Logged(p) EXCEPT !.session = "none"], 200)
       \/ /\ ~RespOk(p)
          /\ Answer(p, Logged(p), 200)

(* PUT /v1/me/player/play returned; its outcome is not looked at *)
EnqPlay(p) ==
    /\ Returned(p, "e_play")
    /\ Answer(p, Logged(p), 200)

(* One enqueue at a time on slot 1, the store set up once *)
InitEnq == InitCommon /\ credsSet = TRUE

NextEnq ==
    \/ SetupOnce(1)
    \/ GwFetch(1)
    \/ GwStepRetry(1)
    \/ NextRequest(1)
    \/ EnqStart(1)
    \/ EnqToken(1)
    \/ EnqSearch(1)
    \/ EnqVerified(1)
    \/ EnqPlaylistToken(1)
    \/ EnqMe(1)
    \/ EnqCreate(1)
    \/ EnqPlayer1(1)
    \/ EnqQueueAdd(1)
    \/ EnqAdd(1)
    \/ EnqPlayer2(1)
    \/ EnqPlay(1)

SpecEnq == InitEnq /\ [][NextEnq]_vars

----------------------------------------------------------------------------
(* Reading the history of an enqueue *)

(* the requests the handler has sent to the Spotify API so far, the ones of
   the gateway call in progress included *)
LogNow(p) ==
    hloc[p].log \o
      [i \in 1..(IF gmode[p] = "api" THEN Count(trace[p], "target") ELSE 0)
         |-> gurl[p]]

(* the requests that change the player queue, a playlist or playback *)
Mutating == {"queueAdd", "add", "play", "playContext", "create"}

Uses(l, u) ==
    /\ l.queuedUri # 0 => l.queuedUri = u
    /\ l.addedUri # 0 => l.addedUri = u

(* C11: an enqueue with a uri makes no search call and appends that very
   uri; an authenticated enqueue with a song name only makes exactly one
   search call (one request, a second one only as the gateway's retry) and
   appends the uri of the first item of the answer; when the answer holds no
   item the enqueue answers 404 and has sent no request that changes the
   player queue, a playlist or playback. *)
ResolveUri ==
    \A p \in Procs :
      hloc[p].route = "enqueue" =>
        LET l == hloc[p] IN
        /\ l.uri # 0 =>
             /\ l.searches = 0 /\ ~Has(LogNow(p), "search")
             /\ Uses(l, l.uri)
        /\ (l.uri = 0 /\ l.songName # 0 /\ hpc[p] # "e_token"
              /\ resp[p].status # 401) =>
             /\ l.searches = 1
             /\ Count(LogNow(p), "search") <= 2
             /\ (l.queuedUri # 0 \/ l.addedUri # 0) => l.found = "some"
             /\ Uses(l, l.first)
        /\ l.found = "none" =>
             /\ hpc[p] = "done" /\ resp[p].status = 404
             /\ \A i \in 1..Len(LogNow(p)) : LogNow(p)[i] \notin Mutating
        /\ resp[p].status = 404 => l.found = "none"

(* a song name alone was resolved by one search to the first of two items,
   and that uri went to the player queue and to the playlist *)
ResolveUriWitness ==
    \E p \in Procs :
      /\ hloc[p].route = "enqueue" /\ hpc[p] = "done"
      /\ hloc[p].uri = 0 /\ hloc[p].songName # 0
      /\ Count(hloc[p].log, "search") = 1
      /\ hloc[p].first = 3
      /\ hloc[p].queuedUri = 3 /\ hloc[p].addedUri = 3
      /\ resp[p].status = 200

(* C12: an enqueue answers success only if the player-queue append or the
   playlist append was answered ok, answers an error when neither was, and
   answers success when the player-queue append failed and the playlist
   append was answered ok. *)
EitherAppend ==
    \A p \in Procs :
      (hloc[p].route = "enqueue" /\ hpc[p] = "done") =>
        LET l == hloc[p] IN
        /\ resp[p].status = 200 => (l.queueAdded \/ l.addOk)
        /\ (~l.queueAdded /\ ~l.addOk) => resp[p].status >= 400
        /\ (~l.queueAdded /\ l.addOk) => resp[p].status = 200

(* the player-queue append was sent and failed, the playlist append was
   answered ok and the enqueue answered success *)
EitherAppendWitness ==
    \E p \in Procs :
      /\ hloc[p].route = "enqueue" /\ hpc[p] = "done"
      /\ Has(hloc[p].log, "queueAdd")
      /\ ~hloc[p].queueAdded
      /\ hloc[p].addOk
      /\ resp[p].status = 200

(* C13: an enqueue whose player-queue append succeeded never sends a play
   request with a context_uri; it sends a plain resume only after the player
   was read paused or without a session, and sends no play request after the
   player was read playing. *)
QueuePreserved ==
    \A p \in Procs :
      (hloc[p].route = "enqueue" /\ hloc[p].queueAdded) =>
        /\ ~Has(LogNow(p), "playContext")
        /\ (Has(LogNow(p), "play") \/ hpc[p] = "e_play") =>
             hloc[p].session \in {"paused", "none"}
        /\ hloc[p].session = "playing" =>
             /\ ~Has(LogNow(p), "play")
             /\ hpc[p] = "done"
        /\ Count(LogNow(p), "play") <= 1

(* after a successful player-queue append the player was read paused and a
   plain resume was sent *)
QueuePreservedWitness ==
    \E p \in Procs :
      /\ hloc[p].route = "enqueue" /\ hpc[p] = "done"
      /\ hloc[p].queueAdded
      /\ hloc[p].session = "paused"
      /\ Last(hloc[p].log) = "play"
      /\ resp[p].status = 200

----------------------------------------------------------------------------
(* DELETE /api/spotify/queue, the revision that scans the managed playlist *)

(* findTrackInPlaylist: limit = 100, offset < 500 *)
ScanLimit == 100
ScanCap == 500
MaxPages == ScanCap \div ScanLimit

(* the password header against ADMIN_PASSWORD: absent, different, equal *)
Passwords == {"none", "wrong", "right"}

(* req.body: uri and trackId, 0 when absent; track id n has uri n *)
DelBodies == {[uri |-> u, trackId |-> i] : u \in {0, 1}, i \in {0, 1, 2}}

(* trackUri: the uri, or spotify:track:<trackId> when only the id came (the
   textual forms of one uri are one value here) *)
NormalUri(uri, trackId) == IF uri = 0 /\ trackId # 0 THEN trackId ELSE uri

(* the track ids findTrackInPlaylist can match: trackUri itself, and
   trackId, else the id inside trackUri *)
Matches(trackUri, trackId) ==
    {trackUri} \cup {IF trackId # 0 THEN trackId ELSE trackUri}

(* The managed playlist as Spotify holds it during one scan: pos the page
   that holds the track (0: none), uri the track held, full the number of
   full pages in front of it, or in all when it is not held *)
NoSnap == [pos |-> 0, uri |-> 0, full |-> 0]

Snapshots(trackUri, trackId) ==
    {[pos |-> 0, uri |-> 0, full |-> n] : n \in {0, MaxPages}}
      \cup {[pos |-> k, uri |-> m, full |-> k - 1] :
              k \in {1, MaxPages, MaxPages + 1}, m \in Matches(trackUri, trackId)}

(* data.items of page k (1-based) and whether it holds limit items *)
PageOf(snap, k) ==
    [items  |-> IF snap.pos = k THEN {snap.uri} ELSE {},
     isFull |-> k <= snap.full]

(* variant: a page is searched by uri only *)
FindInPageUriOnly(items, trackUri, trackId) ==
    IF trackUri \in items THEN trackUri ELSE 0

(* the match inside one page: by uri first, then by id *)
FindInPage(items, trackUri, trackId) ==
    LET searchTrackId == IF trackId # 0 THEN trackId ELSE trackUri
    IN  IF trackUri \in items THEN trackUri
        ELSE IF searchTrackId \in items THEN searchTrackId
        ELSE 0

(* Locals of the remove handler, with the history the properties read:
   found the results of the scans run (0 is null), scanned for each of them
   the playlist it ran over, the page requests it made and how it ended,
   held whether the playlist
   held the track when the first scan ran, ended how the first scan ended,
   skips for each next sent whether the queue read before it reported the
   resolved uri (the requested one when none was resolved) as current or
   next, nexts the outcomes of the next requests, nfRead / retry what the
   queue read of the not-found branch / of the retry told about the
   requested uri: "matched" (current or next), "unmatched", "unread" *)
DelLoc(body, pw, admin) ==
    [route |-> "remove", uri |-> body.uri, trackId |-> body.trackId,
     pw |-> pw, admin |-> admin,
     trackUri |-> NormalUri(body.uri, body.trackId), uriToRemove |-> 0,
     playlistId |-> 0, phase |-> 0, page |-> 0, snap |-> NoSnap,
     found |-> <<>>, scanned |-> <<>>, held |-> FALSE, ended |-> "",
     deletedUri |-> 0,
     skips |-> <<>>, nexts |-> <<>>, nfRead |-> "", retry |-> "",
     called |-> {}, sent |-> 0, log |-> <<>>]

(* how a next request ended *)
Outcome(res) ==
    IF res.kind = "throw" THEN "threw"
    ELSE IF IsOk(res.status) THEN "ok" ELSE "rejected"

(* the handler goes on with a gateway call and stays unanswered *)
Goes(p, url, pc, loc) ==
    /\ Call(p, "api", url)
    /\ HSet(p, pc, loc, NoResp)
    /\ UNCHANGED <<playlistId, created, served>>

(* findTrackInPlaylist is entered: the first page is asked for *)
StartScan(p, loc, phase) ==
    /\ Call(p, "api", "tracks")
    /\ HSet(p, "d_scan", [loc EXCEPT !.phase = phase, !.page = 1], NoResp)

(* variant: the scan after the skip is not looked at *)
AfterSkipStatusIgnored(verifyAfterSkip) == 200

(* the answer after the retried skip: an error when the scan still finds
   the track *)
AfterSkipStatus(verifyAfterSkip) == IF verifyAfterSkip # 0 THEN 500 ELSE 200

(* variant: only the first item of the player queue is compared *)
IsNowOrNextOnlyNext(target, nowUri, nextUri) ==
    target # 0 /\ nextUri = target

(* nowUri === target || nextUri === target *)
IsNowOrNext(target, nowUri, nextUri) ==
    target # 0 /\ (nowUri = target \/ nextUri = target)

(* findTrackInPlaylist returned result: the handler goes on according to
   which of its three scans this was *)
ScanDone(p, loc, result, why) ==
    LET l == [loc EXCEPT !.found = Append(@, result),
                         !.scanned = Append(@, [snap |-> loc.snap,
                                                pages |-> loc.page,
                                                why |-> why]),
                         !.snap = NoSnap,
                         !.ended = IF loc.phase = 1 THEN why ELSE @]
    IN  IF l.phase = 1
        THEN IF result = 0
             THEN Goes(p, "queue", "d_nfqueue", l)
             ELSE Goes(p, "delete", "d_delete",
                       [l EXCEPT !.uriToRemove = result, !.deletedUri = result])
        ELSE IF l.phase = 2
        THEN IF result = 0
             THEN Answer(p, l, 200)
             ELSE Goes(p, "queue", "d_rqueue", l)
        ELSE Answer(p, l, AfterSkipStatus(result))

(* getOrCreateRadioPlaylist is entered by the remove handler *)
DelGetPlaylist(p, loc) ==
    IF playlistId # 0
    THEN /\ Call(p, "api", "verify")
         /\ HSet(p, "d_verify", loc, NoResp)
    ELSE /\ Call(p, "gvt", "")
         /\ HSet(p, "d_ptoken", loc, NoResp)

(* the body and the password header are checked *)
DelStart(p) ==
    /\ hpc[p] = "idle"
    /\ \E body \in DelBodies, pw \in Passwords, admin \in BOOLEAN :
         LET loc == DelLoc(body, pw, admin) IN
         IF body.uri = 0 /\ body.trackId = 0 THEN Answer(p, loc, 400)
         ELSE IF ~admin THEN Answer(p, loc, 500)
         ELSE IF pw # "right" THEN Answer(p, loc, 401)
         ELSE /\ DelGetPlaylist(p, loc)
              /\ UNCHANGED <<playlistId, created, served>>

(* getOrCreateRadioPlaylist: the verification GET returned *)
DelVerified(p) ==
    /\ Returned(p, "d_verify")
    /\ IF RespOk(p)
       THEN /\ StartScan(p, [Logged(p) EXCEPT !.playlistId = playlistId], 1)
            /\ UNCHANGED playlistId
       ELSE /\ Call(p, "gvt", "")
            /\ HSet(p, "d_ptoken", Logged(p), NoResp)
            /\ playlistId' = IF gres[p].kind = "throw" THEN 0 ELSE playlistId
    /\ UNCHANGED <<created, served>>

(* getOrCreateRadioPlaylist: getValidServerToken returned *)
DelPlaylistToken(p) ==
    /\ Returned(p, "d_ptoken")
    /\ IF gres[p].status = 0
       THEN Answer(p, Logged(p), 500)
       ELSE Goes(p, "me", "d_me", Logged(p))

(* getOrCreateRadioPlaylist: GET /v1/me returned *)
DelMe(p) ==
    /\ Returned(p, "d_me")
    /\ \/ /\ RespOk(p) /\ gres[p].status # 204
          /\ Goes(p, "create", "d_create", Logged(p))
       \/ /\ ~RespOk(p) \/ gres[p].status = 204
          /\ Answer(p, Logged(p), 500)

(* getOrCreateRadioPlaylist: POST /v1/users/{id}/playlists returned *)
DelCreate(p) ==
    /\ Returned(p, "d_create")
    /\ \/ /\ RespOk(p) /\ gres[p].status # 204
          /\ created < MaxCreated
          /\ created' = created + 1
          /\ playlistId' = created + 1
          /\ StartScan(p, [Logged(p) EXCEPT !.playlistId = created + 1], 1)
          /\ UNCHANGED served
       \/ /\ ~RespOk(p) \/ gres[p].status = 204
          /\ Answer(p, Logged(p), 500)

(* findTrackInPlaylist: a page of the playlist returned.  A page that is not
   ok ends the scan with null; a throw leaves the handler through its catch. *)
DelScan(p) ==
    /\ Returned(p, "d_scan")
    /\ \E snap \in (IF hloc[p].page = 1
                    THEN Snapshots(hloc[p].trackUri, hloc[p].trackId)
                    ELSE {hloc[p].snap}) :
         LET loc == [Acc(p) EXCEPT
                       !.snap = snap,
                       !.held = IF hloc[p].phase = 1 /\ hloc[p].page = 1
                                THEN snap.pos # 0 ELSE @]
             pg  == PageOf(snap, loc.page)
             hit == FindInPage(pg.items, loc.trackUri, loc.trackId)
         IN  IF gres[p].kind = "throw" \/ gres[p].status = 204
             THEN Answer(p, loc, 500)
             ELSE IF ~RespOk(p) THEN ScanDone(p, loc, 0, "failed")
             ELSE IF hit # 0 THEN ScanDone(p, loc, hit, "found")
             ELSE IF ~pg.isFull THEN ScanDone(p, loc, 0, "short")
             ELSE IF loc.page < MaxPages
             THEN Goes(p, "tracks", "d_scan", [loc EXCEPT !.page = @ + 1])
             ELSE ScanDone(p, loc, 0, "capped")

(* not in the playlist: GET /v1/me/player/queue returned; the track is
   skipped when it is current or next, else the answer is 404 *)
DelNotFoundQueue(p) ==
    /\ Returned(p, "d_nfqueue")
    /\ \/ /\ RespOk(p) /\ gres[p].status # 204
          /\ \E nowUri \in {0, 1, 2}, nextUri \in {0, 1, 2} :
               LET loc == [Logged(p) EXCEPT
                             !.nfRead = IF hloc[p].trackUri \in {nowUri, nextUri}
                                        THEN "matched" ELSE "unmatched"]
               IN  IF IsNowOrNext(hloc[p].trackUri, nowUri, nextUri)
                   THEN Goes(p, "next", "d_nfnext",
                             [loc EXCEPT !.skips = Append(@, TRUE)])
                   ELSE Answer(p, loc, 404)
       \/ /\ ~RespOk(p) \/ gres[p].status = 204
          /\ Answer(p, [Logged(p) EXCEPT !.nfRead = "unread"], 404)

(* not in the playlist: POST /v1/me/player/next returned; its response is
   not looked at, a throw falls through to the 404 *)
DelNotFoundNext(p) ==
    /\ Returned(p, "d_nfnext")
    /\ LET loc == [Logged(p) EXCEPT !.nexts = Append(@, Outcome(gres[p]))] IN
       IF gres[p].kind = "throw"
       THEN Answer(p, loc, 404)
       ELSE Answer(p, loc, 200)

(* the playlist DELETE returned; when it is ok the player queue is read *)
DelDeleted(p) ==
    /\ Returned(p, "d_delete")
    /\ IF RespOk(p)
       THEN Goes(p, "queue", "d_pqueue", Logged(p))
       ELSE Answer(p, Logged(p), 500)

(* after the DELETE: the queue read returned; the removed uri is skipped
   when it is current or next, then the removal is verified *)
DelPostQueue(p) ==
    /\ Returned(p, "d_pqueue")
    /\ \/ /\ RespOk(p) /\ gres[p].status # 204
          /\ \E nowUri \in {0, 1, 2}, nextUri \in {0, 1, 2} :
               IF IsNowOrNext(hloc[p].uriToRemove, nowUri, nextUri)
               THEN Goes(p, "next", "d_pnext",
                         [Logged(p) EXCEPT !.skips = Append(@, TRUE)])
               ELSE /\ StartScan(p, Logged(p), 2)
                    /\ UNCHANGED <<playlistId, created, served>>
       \/ /\ ~RespOk(p) \/ gres[p].status = 204
          /\ StartScan(p, Logged(p), 2)
          /\ UNCHANGED <<playlistId, created, served>>

(* after the DELETE: the next returned; failures of the skip are ignored *)
DelPostNext(p) ==
    /\ Returned(p, "d_pnext")
    /\ StartScan(p, [Logged(p) EXCEPT !.nexts = Append(@, Outcome(gres[p]))], 2)
    /\ UNCHANGED <<playlistId, created, served>>

(* the track is still found: the queue read of the retry returned *)
DelRetryQueue(p) ==
    /\ Returned(p, "d_rqueue")
    /\ \/ /\ RespOk(p) /\ gres[p].status # 204
          /\ \E nowUri \in {0, 1, 2}, nextUri \in {0, 1, 2} :
               LET loc == [Logged(p) EXCEPT
                             !.retry = IF hloc[p].trackUri \in {nowUri, nextUri}
                                       THEN "matched" ELSE "unmatched"]
               IN  IF IsNowOrNext(hloc[p].trackUri, nowUri, nextUri)
                   THEN Goes(p, "next", "d_rnext",
                             [loc EXCEPT
                                !.skips = Append(@, hloc[p].uriToRemove
                                                      \in {nowUri, nextUri})])
                   ELSE Answer(p, loc, 500)
       \/ /\ ~RespOk(p) \/ gres[p].status = 204
          /\ Answer(p, [Logged(p) EXCEPT !.retry = "unread"], 500)

(* the retry: the next returned; the playlist is scanned once more *)
DelRetryNext(p) ==
    /\ Returned(p, "d_rnext")
    /\ LET loc == [Logged(p) EXCEPT !.nexts = Append(@, Outcome(gres[p]))] IN
       IF gres[p].kind = "throw"
       THEN Answer(p, loc, 500)
       ELSE /\ StartScan(p, loc, 3)
            /\ UNCHANGED <<playlistId, created, served>>

(* One remove on slot 1, the store set up once; an earlier request may have
   left the id of the playlist it created in radioPlaylist *)
InitDel ==
    /\ tokens = <<>>
    /\ now = 0
    /\ credsSet = TRUE
    /\ setAt = 0
    /\ setE = 0
    /\ advances = 0
    /\ issued = 0
    /\ lastWrite = NoWrite
    /\ playlistId \in {0, 1}
    /\ created = playlistId
    /\ served = 0
    /\ hpc = [p \in Procs |-> "idle"]
    /\ gpc = [p \in Procs |-> "idle"]
    /\ gmode = [p \in Procs |-> "api"]
    /\ gurl = [p \in Procs |-> ""]
    /\ gretry = [p \in Procs |-> FALSE]
    /\ gtok = [p \in Procs |-> 0]
    /\ grt = [p \in Procs |-> 0]
    /\ gres = [p \in Procs |-> NoRes]
    /\ hloc = [p \in Procs |-> NoLoc]
    /\ resp = [p \in Procs |-> NoResp]
    /\ trace = [p \in Procs |-> <<>>]

NextDel ==
    \/ SetupOnce(1)
    \/ GwFetch(1)
    \/ DelStart(1)
    \/ DelVerified(1)
    \/ DelPlaylistToken(1)
    \/ DelMe(1)
    \/ DelCreate(1)
    \/ DelScan(1)
    \/ DelNotFoundQueue(1)
    \/ DelNotFoundNext(1)
    \/ DelDeleted(1)
    \/ DelPostQueue(1)
    \/ DelPostNext(1)
    \/ DelRetryQueue(1)
    \/ DelRetryNext(1)

SpecDel == InitDel /\ [][NextDel]_vars

----------------------------------------------------------------------------
(* Reading the history of a remove *)

Removing(p) == hloc[p].route = "remove"

(* the first scan found the track in the playlist *)
FoundInPlaylist(p) == Len(hloc[p].found) >= 1 /\ hloc[p].found[1] # 0

(* C14 as stated: when the first scan finds the track, a playlist DELETE for
   the resolved uri is sent, and every next sent after it follows a queue
   read that reported that uri as currently playing or as first item of the
   player queue. *)
DeleteThenSkipIfLive ==
    \A p \in Procs :
      (Removing(p) /\ FoundInPlaylist(p)) =>
        /\ Has(LogNow(p), "delete")
        /\ hloc[p].deletedUri = hloc[p].found[1]
        /\ \A i \in 1..Len(hloc[p].skips) : hloc[p].skips[i]

(* the remove was answered *)
RemoveAnswered(p) == Removing(p) /\ hpc[p] = "done"

(* C15 as stated: a remove whose track is not held by the playlist and is
   reported neither current nor next answers 404 without a next or a
   playlist DELETE, and a remove answers 404 only when the playlist does not
   hold the track. *)
NotFoundIs404 ==
    \A p \in Procs :
      RemoveAnswered(p) =>
        /\ (Len(hloc[p].found) >= 1 /\ ~hloc[p].held
              /\ hloc[p].nfRead = "unmatched") =>
             /\ resp[p].status = 404
             /\ ~Has(hloc[p].log, "next") /\ ~Has(hloc[p].log, "delete")
        /\ resp[p].status = 404 => ~hloc[p].held

(* C16 as stated: a remove whose track is not held by the playlist and is
   reported current or next sends exactly one next, no playlist DELETE, and
   answers success. *)
SkipWhenLiveAsStated ==
    \A p \in Procs :
      (RemoveAnswered(p) /\ Len(hloc[p].found) >= 1 /\ ~hloc[p].held
         /\ hloc[p].nfRead = "matched") =>
        /\ Count(hloc[p].log, "next") = 1
        /\ ~Has(hloc[p].log, "delete")
        /\ resp[p].status = 200

(* C16: a remove whose track is not held by the playlist and is reported
   current or next sends exactly one next and no playlist DELETE; it answers
   success when the next request returned a response, and 404 when the
   request threw. *)
SkipWhenLive ==
    \A p \in Procs :
      (RemoveAnswered(p) /\ Len(hloc[p].found) >= 1 /\ ~hloc[p].held
         /\ hloc[p].nfRead = "matched") =>
        /\ Count(hloc[p].log, "next") = 1
        /\ Len(hloc[p].nexts) = 1
        /\ ~Has(hloc[p].log, "delete")
        /\ resp[p].status = IF hloc[p].nexts[1] = "threw" THEN 404 ELSE 200

(* the track was not in the playlist, was reported current or next, was
   skipped, and the remove answered success *)
SkipWhenLiveWitness ==
    \E p \in Procs :
      /\ RemoveAnswered(p)
      /\ hloc[p].found = <<0>> /\ ~hloc[p].held
      /\ hloc[p].nfRead = "matched"
      /\ hloc[p].nexts = <<"ok">>
      /\ Last(hloc[p].log) = "next"
      /\ resp[p].status = 200

(* C17: after a playlist DELETE a remove answers success only if its last
   scan of the playlist returned no track; when the first verification scan
   still finds the track the queue is read once more, exactly once: the
   remove answers 500 when that read fails or reports the track neither
   current nor next, and when the scan after the skip still finds it.  The
   playlist Spotify shows is arbitrary at every scan, as under concurrent
   enqueues. *)
RemovalVerified ==
    \A p \in Procs :
      (Removing(p) /\ Has(hloc[p].log, "delete")) =>
        LET l == hloc[p] IN
        /\ Len(l.found) <= 3
        /\ Count(LogNow(p), "queue") <= 2
        /\ Count(LogNow(p), "next") <= 2
        /\ l.retry # "" => (Len(l.found) >= 2 /\ l.found[2] # 0)
        /\ hpc[p] = "done" =>
             /\ resp[p].status \in {200, 500}
             /\ resp[p].status = 200 =>
                  (Len(l.found) >= 2 /\ Last(l.found) = 0)
             /\ (Len(l.found) >= 2 /\ l.found[2] # 0) =>
                  /\ l.retry # ""
                  /\ l.retry \in {"unmatched", "unread"} =>
                       (resp[p].status = 500 /\ Len(l.found) = 2)
                  /\ (Len(l.found) = 3 /\ l.found[3] # 0) =>
                       resp[p].status = 500

(* the track was still found after the DELETE, was skipped in the retry,
   and the scan after the skip found it again: 500 *)
RemovalVerifiedWitness ==
    \E p \in Procs :
      /\ RemoveAnswered(p)
      /\ hloc[p].found = <<1, 1, 1>>
      /\ hloc[p].retry = "matched"
      /\ resp[p].status = 500

(* C18 as stated: a remove that answers success through the skip path sent
   a next that Spotify answered ok. *)
SkipFailurePropagated ==
    \A p \in Procs :
      (RemoveAnswered(p) /\ resp[p].status = 200
         /\ ~Has(hloc[p].log, "delete")) =>
        hloc[p].nexts = <<"ok">>

(* C19 as stated, for the remove route: with ADMIN_PASSWORD set, a remove
   whose password header is absent or different answers 401, has sent
   nothing to Spotify and has left the token store and the cached playlist
   id as they were. *)
BadPasswordIs401 ==
    \A p \in Procs :
      (RemoveAnswered(p) /\ hloc[p].admin /\ hloc[p].pw # "right") =>
        /\ resp[p].status = 401
        /\ hloc[p].sent = 0 /\ hloc[p].log = <<>>
        /\ lastWrite.by = 0
        /\ created = playlistId

----------------------------------------------------------------------------
(* POST /api/spotify/control *)

(* req.body: action, and volume (0 is undefined) *)
CtlBodies ==
    {[action |-> a, volume |-> v] :
       a \in {"play", "pause", "next", "volume", "stop"}, v \in {0, 50}}

(* Locals of the control handler, with the history the properties read:
   ctl how the last control request ended: "" none sent, "ok", "rejected",
   "threw"; context whether Spotify's player has a context set when the
   request comes (the handler never asks) *)
CtlLoc(body, pw, admin) ==
    [route |-> "control", action |-> body.action, volume |-> body.volume,
     pw |-> pw, admin |-> admin, playlistId |-> 0, ctl |-> "",
     context |-> FALSE, called |-> {}, sent |-> 0, log |-> <<>>]

(* variant: any response counts as success *)
ControlSucceededAlways(status) == TRUE

(* !(!response.ok && response.status !== 204) *)
ControlSucceeded(status) == IsOk(status) \/ status = 204

(* the handler sends a control request, retryOn401 = true *)
Controls(p, url, pc, loc) ==
    /\ CallRetry(p, url)
    /\ HSet(p, pc, loc, NoResp)
    /\ UNCHANGED <<playlistId, created, served>>

(* the password and the action are checked; play looks the playlist up *)
CtlStart(p) ==
    /\ hpc[p] = "idle"
    /\ \E body \in CtlBodies, pw \in Passwords, admin \in BOOLEAN,
          context \in BOOLEAN :
         LET loc == [CtlLoc(body, pw, admin) EXCEPT !.context = context] IN
         IF ~admin THEN Answer(p, loc, 500)
         ELSE IF pw # "right" THEN Answer(p, loc, 401)
         ELSE IF body.action = "play"
         THEN /\ IF playlistId # 0
                 THEN /\ Call(p, "api", "verify")
                      /\ HSet(p, "c_verify", loc, NoResp)
                 ELSE /\ Call(p, "gvt", "")
                      /\ HSet(p, "c_ptoken", loc, NoResp)
              /\ UNCHANGED <<playlistId, created, served>>
         ELSE IF body.action \in {"pause", "next"}
         THEN Controls(p, body.action, "c_call", loc)
         ELSE IF body.action = "volume" /\ body.volume # 0
         THEN Controls(p, "volume", "c_call", loc)
         ELSE Answer(p, loc, 400)

(* getOrCreateRadioPlaylist: the verification GET returned *)
CtlVerified(p) ==
    /\ Returned(p, "c_verify")
    /\ IF RespOk(p)
       THEN /\ CallRetry(p, "playContext")
            /\ HSet(p, "c_ctx", [Logged(p) EXCEPT !.playlistId = playlistId], NoResp)
            /\ UNCHANGED playlistId
       ELSE /\ Call(p, "gvt", "")
            /\ HSet(p, "c_ptoken", Logged(p), NoResp)
            /\ playlistId' = IF gres[p].kind = "throw" THEN 0 ELSE playlistId
    /\ UNCHANGED <<created, served>>

(* getOrCreateRadioPlaylist: getValidServerToken returned; without a token
   it throws and the handler falls back to the plain play *)
CtlPlaylistToken(p) ==
    /\ Returned(p, "c_ptoken")
    /\ IF gres[p].status = 0
       THEN Controls(p, "play", "c_call", Logged(p))
       ELSE Goes(p, "me", "c_me", Logged(p))

(* getOrCreateRadioPlaylist: GET /v1/me returned *)
CtlMe(p) ==
    /\ Returned(p, "c_me")
    /\ \/ /\ RespOk(p) /\ gres[p].status # 204
          /\ Goes(p, "create", "c_create", Logged(p))
       \/ /\ ~RespOk(p) \/ gres[p].status = 204
          /\ Controls(p, "play", "c_call", Logged(p))

(* getOrCreateRadioPlaylist: POST /v1/users/{id}/playlists returned *)
CtlCreate(p) ==
    /\ Returned(p, "c_create")
    /\ \/ /\ RespOk(p) /\ gres[p].status # 204
          /\ created < MaxCreated
          /\ created' = created + 1
          /\ playlistId' = created + 1
          /\ CallRetry(p, "playContext")
          /\ HSet(p, "c_ctx", [Logged(p) EXCEPT !.playlistId = created + 1], NoResp)
          /\ UNCHANGED served
       \/ /\ ~RespOk(p) \/ gres[p].status = 204
          /\ Controls(p, "play", "c_call", Logged(p))

(* the response of a control request is judged and the handler answers *)
CtlAnswer(p) ==
    Answer(p, [Logged(p) EXCEPT !.ctl = Outcome(gres[p])],
           IF gres[p].kind = "resp" /\ ControlSucceeded(gres[p].status)
           THEN 200 ELSE 500)

(* play on the playlist context returned; a throw falls back to plain play *)
CtlContext(p) ==
    /\ Returned(p, "c_ctx")
    /\ IF gres[p].kind = "throw"
       THEN Controls(p, "play", "c_call", [Logged(p) EXCEPT !.ctl = "threw"])
       ELSE CtlAnswer(p)

(* the control request returned *)
CtlCall(p) ==
    /\ Returned(p, "c_call")
    /\ CtlAnswer(p)

(* One control request at a time on slot 1, the store set up once *)
InitCtl == InitCommon /\ credsSet = TRUE

NextCtl ==
    \/ SetupOnce(1)
    \/ GwFetch(1)
    \/ GwStepRetry(1)
    \/ NextRequest(1)
    \/ CtlStart(1)
    \/ CtlVerified(1)
    \/ CtlPlaylistToken(1)
    \/ CtlMe(1)
    \/ CtlCreate(1)
    \/ CtlContext(1)
    \/ CtlCall(1)

SpecCtl == InitCtl /\ [][NextCtl]_vars

(* C20: an authorised control request answers success exactly when its
   control request was answered ok (204 included) and else answers an error;
   an unknown action, and volume without a value, answer 400 and nothing is
   sent to Spotify. *)
ControlFaithful ==
    \A p \in Procs :
      (hloc[p].route = "control" /\ hpc[p] = "done"
         /\ hloc[p].admin /\ hloc[p].pw = "right") =>
        LET l == hloc[p] IN
        /\ resp[p].status = 200 <=> l.ctl = "ok"
        /\ resp[p].status # 200 => resp[p].status \in {400, 500}
        /\ (l.action \notin {"play", "pause", "next", "volume"}
              \/ (l.action = "volume" /\ l.volume = 0)) <=>
             resp[p].status = 400
        /\ resp[p].status = 400 => (l.sent = 0 /\ l.log = <<>>)

(* a pause that Spotify rejected was answered 500 *)
ControlFaithfulWitness ==
    \E p \in Procs :
      /\ hloc[p].route = "control" /\ hpc[p] = "done"
      /\ hloc[p].action = "pause"
      /\ hloc[p].log = <<"pause">>
      /\ hloc[p].ctl = "rejected"
      /\ resp[p].status = 500

----------------------------------------------------------------------------
(* Control action play and the player's context *)

(* C21: the play request of control action play carries the managed playlist
   as context_uri only when the player has no context set; with a context
   active the handler resumes with a plain play. *)
PlayKeepsContext ==
    \A p \in Procs :
      (hloc[p].route = "control" /\ hloc[p].action = "play"
         /\ hloc[p].context) =>
        /\ ~Has(LogNow(p), "playContext")
        /\ (hpc[p] = "done" /\ resp[p].status = 200) => Has(LogNow(p), "play")

----------------------------------------------------------------------------
(* getOrCreateRadioPlaylist called again and again *)

(* Locals of a getOrCreateRadioPlaylist call, with the history the properties
   read: cached the id the RadioPlaylistRef held when the call began (0 none),
   prev the id the call before returned and prevV the status its
   verification GET was answered with, verify how the verification GET
   ended ("" none sent) and vstatus its status, failedAt the step whose
   failure ended the call, ret the id returned, err whether it threw *)
PlLoc(cached, prev, prevV) ==
    [route |-> "playlist", cached |-> cached, prev |-> prev,
     prevV |-> prevV, verify |-> "",
     vstatus |-> 0, failedAt |-> "", ret |-> 0, err |-> FALSE,
     called |-> {}, sent |-> 0, log |-> <<>>]

(* variant: the verification never counts as passed *)
VerifiedOkNever(res) == FALSE

(* checkRes.ok of a verification GET that returned a response *)
VerifiedOk(res) == res.kind = "resp" /\ IsOk(res.status)

(* variant: the id of the answer is never stored *)
StoredAfterCreateForgets(ok, newId, old) == old

(* variant: an id is stored whether or not the creation was answered ok *)
StoredAfterCreateAlways(ok, newId, old) == newId

(* the RadioPlaylistRef after the creation request returned: the throw on
   !createRes.ok comes before setPlaylistId *)
StoredAfterCreate(ok, newId, old) == IF ok THEN newId ELSE old

(* the call throws at step `at` *)
PlThrow(p, loc, at) ==
    /\ HSet(p, "done", [loc EXCEPT !.err = TRUE, !.failedAt = at], NoResp)
    /\ Finish(p)
    /\ UNCHANGED <<playlistId, created>>

(* getOrCreateRadioPlaylist is called: the cached id is read *)
PlStart(p) ==
    /\ hpc[p] \in {"idle", "done"}
    /\ served < MaxRequests
    /\ LET again == hloc[p].route = "playlist"
           loc == PlLoc(playlistId, IF again THEN hloc[p].ret ELSE 0,
                        IF again THEN hloc[p].vstatus ELSE 0)
       IN  IF playlistId # 0
           THEN /\ Call(p, "api", "verify")
                /\ HSet(p, "p_verify", loc, NoResp)
           ELSE /\ Call(p, "gvt", "")
                /\ HSet(p, "p_token", loc, NoResp)
    /\ UNCHANGED <<playlistId, created, served>>

(* the verification GET returned *)
PlVerified(p) ==
    /\ Returned(p, "p_verify")
    /\ LET loc == [Logged(p) EXCEPT !.verify = Outcome(gres[p]),
                                    !.vstatus = gres[p].status]
       IN  IF VerifiedOk(gres[p])
           THEN /\ HSet(p, "done", [loc EXCEPT !.ret = hloc[p].cached], NoResp)
                /\ Finish(p)
                /\ UNCHANGED <<playlistId, created>>
           ELSE /\ Call(p, "gvt", "")
                /\ HSet(p, "p_token", loc, NoResp)
                /\ playlistId' = IF gres[p].kind = "throw" THEN 0 ELSE playlistId
                /\ UNCHANGED <<created, served>>

(* getValidServerToken returned *)
PlToken(p) ==
    /\ Returned(p, "p_token")
    /\ IF gres[p].status = 0
       THEN PlThrow(p, Logged(p), "token")
       ELSE Goes(p, "me", "p_me", Logged(p))

(* GET /v1/me returned *)
PlMe(p) ==
    /\ Returned(p, "p_me")
    /\ \/ /\ RespOk(p) /\ gres[p].status # 204
          /\ Goes(p, "create", "p_create", Logged(p))
       \/ /\ ~RespOk(p) \/ gres[p].status = 204
          /\ PlThrow(p, Logged(p), "me")

(* POST /v1/users/{id}/playlists returned *)
PlCreate(p) ==
    /\ Returned(p, "p_create")
    /\ \/ /\ RespOk(p) /\ gres[p].status # 204
          /\ created < MaxCreated
          /\ created' = created + 1
          /\ playlistId' = StoredAfterCreate(TRUE, created + 1, playlistId)
          /\ HSet(p, "done", [Logged(p) EXCEPT !.ret = created + 1], NoResp)
       \/ /\ ~RespOk(p) \/ gres[p].status = 204
          /\ created' = created
          /\ playlistId' = StoredAfterCreate(FALSE, created + 1, playlistId)
          /\ HSet(p, "done", [Logged(p) EXCEPT !.err = TRUE, !.failedAt = "create"],
                  NoResp)
    /\ Finish(p)

(* One call at a time on slot 1, over a store that is set up and ages; a
   playlist id may be cached from before *)
InitPl ==
    /\ tokens = <<>>
    /\ now = 0
    /\ credsSet = TRUE
    /\ setAt = 0
    /\ setE = 0
    /\ advances = 0
    /\ issued = 0
    /\ lastWrite = NoWrite
    /\ playlistId \in {0, 1}
    /\ created = playlistId
    /\ served = 0
    /\ hpc = [p \in Procs |-> "idle"]
    /\ gpc = [p \in Procs |-> "idle"]
    /\ gmode = [p \in Procs |-> "api"]
    /\ gurl = [p \in Procs |-> ""]
    /\ gretry = [p \in Procs |-> FALSE]
    /\ gtok = [p \in Procs |-> 0]
    /\ grt = [p \in Procs |-> 0]
    /\ gres = [p \in Procs |-> NoRes]
    /\ hloc = [p \in Procs |-> NoLoc]
    /\ resp = [p \in Procs |-> NoResp]
    /\ trace = [p \in Procs |-> <<>>]

NextPl ==
    \/ SetupBetween(1)
    \/ AdvanceCoarse
    \/ GwStepOnce(1)
    \/ PlStart(1)
    \/ PlVerified(1)
    \/ PlToken(1)
    \/ PlMe(1)
    \/ PlCreate(1)

SpecPl == InitPl /\ [][NextPl]_vars

(* a getOrCreateRadioPlaylist call that ended *)
PlEnded(p) == hloc[p].route = "playlist" /\ hpc[p] = "done"

(* C22: a call that finds a cached id whose verification GET succeeds makes
   one gateway call, the verification GET, sends that one request to the
   Spotify API, creates nothing, returns the cached id and leaves the
   RadioPlaylistRef as it was. *)
CachedIdReused ==
    \A p \in Procs :
      (PlEnded(p) /\ hloc[p].cached # 0 /\ hloc[p].verify = "ok") =>
        LET l == hloc[p] IN
        /\ l.called = {"verify"}
        /\ l.log = <<"verify">>
        /\ ~l.err
        /\ l.ret = l.cached
        /\ playlistId = l.cached

(* the cached id was verified after the expired token had been refreshed,
   and returned *)
CachedIdReusedWitness ==
    \E p \in Procs :
      /\ PlEnded(p) /\ hloc[p].cached # 0 /\ hloc[p].verify = "ok"
      /\ hloc[p].ret = hloc[p].cached
      /\ hloc[p].sent = 2

(* C23: a call whose verification GET answers 404 sends at most one creation
   request; when it returns, it sent exactly one, and the id it returns is a
   new one that the RadioPlaylistRef now holds; a later call whose
   verification succeeds returns the id the call before returned and creates
   nothing. *)
RecreatedOnce ==
    \A p \in Procs :
      PlEnded(p) =>
        LET l == hloc[p] IN
        /\ l.vstatus = 404 =>
             /\ Count(l.log, "create") <= 1
             /\ ~l.err =>
                  /\ Count(l.log, "create") = 1
                  /\ l.ret # 0 /\ l.ret # l.cached
                  /\ playlistId = l.ret
        /\ (l.prev # 0 /\ l.verify = "ok") =>
             /\ l.ret = l.prev
             /\ ~Has(l.log, "create")

(* the call after a re-creation on a 404 returned the re-created id *)
RecreatedOnceWitness ==
    \E p \in Procs :
      /\ PlEnded(p) /\ hloc[p].verify = "ok"
      /\ hloc[p].prevV = 404
      /\ hloc[p].prev = 2 /\ hloc[p].ret = 2
      /\ created = 2

(* C24: once the verification of the cached id failed, by a response that is
   not ok or by an exception, the RadioPlaylistRef no longer holds that id
   while the call goes on to create a playlist, nor after it failed. *)
StaleIdCleared ==
    \A p \in Procs :
      (hloc[p].route = "playlist" /\ hloc[p].cached # 0
         /\ hloc[p].verify \in {"rejected", "threw"}
         /\ (hpc[p] \in {"p_token", "p_me", "p_create"} \/ hloc[p].err)) =>
        playlistId # hloc[p].cached

(* C25: a call that fails at the token, at the identity lookup or at the
   creation request throws, returns no id and stores no new id: the
   RadioPlaylistRef holds what it held when the call began, or nothing. *)
FailedCallStoresNothing ==
    \A p \in Procs :
      (PlEnded(p) /\ hloc[p].failedAt # "") =>
        /\ hloc[p].err
        /\ hloc[p].ret = 0
        /\ playlistId \in {hloc[p].cached, 0}

(* the creation request was rejected and the call threw *)
FailedCallStoresNothingWitness ==
    \E p \in Procs :
      /\ PlEnded(p) /\ hloc[p].failedAt = "create"
      /\ Last(hloc[p].log) = "create"
      /\ hloc[p].err

----------------------------------------------------------------------------
(* Requests that find no usable token *)

(* C26: a control request with the correct password and a valid action that
   finds no token in the store is answered 401. (The store stays empty for
   the whole request: it is set up only between requests.) *)
NoTokenIs401 ==
    \A p \in Procs :
      (hloc[p].route = "control" /\ hpc[p] = "done"
         /\ hloc[p].admin /\ hloc[p].pw = "right"
         /\ (hloc[p].action \in {"play", "pause", "next"}
               \/ (hloc[p].action = "volume" /\ hloc[p].volume # 0))
         /\ tokens = <<>>) =>
        resp[p].status = 401

----------------------------------------------------------------------------
(* POST /api/spotify/token *)

(* req.body: code and redirectUri, 0 when absent *)
TokBodies == {[code |-> c, redirectUri |-> r] : c \in {0, 1}, r \in {0, 1}}

(* Locals of the token handler, with the history the properties read:
   before the store when the request came, sent the requests sent to the
   accounts service, access / expiresIn the access_token and expires_in of
   its answer (0 absent), storedAt Date.now() when the pair was stored *)
TokLoc(body) ==
    [route |-> "token", code |-> body.code, redirectUri |-> body.redirectUri,
     before |-> tokens, sent |-> 0, access |-> 0, expiresIn |-> 0,
     storedAt |-> 0]

(* variant: a failed exchange clears the store *)
StoreAfterExchangeClears(ok, access, refresh, expiresIn) ==
    IF ok THEN setTokens(access, refresh, OrDefault(expiresIn), now)
    ELSE clearTokens

(* the store after exchangeCodeForTokens returned (ok) or threw *)
StoreAfterExchange(ok, access, refresh, expiresIn) ==
    IF ok THEN setTokens(access, refresh, OrDefault(expiresIn), now)
    ELSE tokens

(* the body and the credentials are checked; then the code is exchanged *)
TokStart(p) ==
    /\ hpc[p] = "idle"
    /\ \E body \in TokBodies :
         LET loc == TokLoc(body) IN
         IF body.code = 0 \/ body.redirectUri = 0 THEN Answer(p, loc, 400)
         ELSE IF ~credsSet THEN Answer(p, loc, 500)
         ELSE /\ HSet(p, "t_exchange", [loc EXCEPT !.sent = 1], NoResp)
              /\ UNCHANGED <<storeVars, gwVars, playlistId, created, served>>

(* exchangeCodeForTokens returned the pair, or threw: the accounts service
   rejected the code, the fetch failed or the body could not be read *)
TokExchangeReturned(p) ==
    /\ hpc[p] = "t_exchange"
    /\ \/ /\ issued < MaxIssued
          /\ \E hasRt \in BOOLEAN, e \in AnsweredExpiresIn :
               LET rt == IF hasRt THEN issued + 1 ELSE 0 IN
               /\ tokens' = StoreAfterExchange(TRUE, issued + 1, rt, e)
               /\ setE' = OrDefault(e)
               /\ lastWrite' = Write(0, "exchange", rt, 0)
               /\ HSet(p, "done",
                       [hloc[p] EXCEPT !.access = issued + 1, !.expiresIn = e,
                                       !.storedAt = now],
                       Status(200))
          /\ setAt' = now
          /\ issued' = issued + 1
       \/ /\ tokens' = StoreAfterExchange(FALSE, 0, 0, 0)
          /\ HSet(p, "done", hloc[p], Status(500))
          /\ UNCHANGED <<setAt, setE, issued, lastWrite>>
    /\ GwSet(p, "idle", 0, 0, NoRes, <<>>)
    /\ served' = served + 1
    /\ UNCHANGED <<now, credsSet, advances, gmode, gurl, gretry, playlistId, created>>

(* One token request at a time on slot 1, under a running clock *)
InitSetup == InitCommon /\ credsSet \in BOOLEAN

NextSetup ==
    \/ AdvanceFine
    \/ NextRequest(1)
    \/ TokStart(1)
    \/ TokExchangeReturned(1)

SpecSetup == InitSetup /\ [][NextSetup]_vars

(* C27: POST /api/spotify/token answers 400 when code or redirectUri is
   missing and 500 when a credential is unset, both without a request to
   Spotify; every answer other than success leaves the TokenStore as it was
   when the request came; on success the store holds the access token of
   the answer, expiring expires_in seconds (3600 when absent) after the
   moment it was stored. *)
TokenRouteContract ==
    \A p \in Procs :
      (hloc[p].route = "token" /\ hpc[p] = "done") =>
        LET l == hloc[p]
            missing == l.code = 0 \/ l.redirectUri = 0
        IN  /\ missing => (resp[p].status = 400 /\ l.sent = 0)
            /\ (~missing /\ ~credsSet) => (resp[p].status = 500 /\ l.sent = 0)
            /\ resp[p].status \in {200, 400, 500}
            /\ resp[p].status # 200 => tokens = l.before
            /\ resp[p].status = 200 =>
                 /\ l.sent = 1
                 /\ getAccessToken(tokens) = l.access
                 /\ tokens[1].expires_at =
                      l.storedAt + 1000 * (IF l.expiresIn = 0 THEN 3600
                                           ELSE l.expiresIn)

(* a rejected exchange left the pair stored by an earlier one in place *)
TokenRouteContractWitness ==
    \E p \in Procs :
      /\ hloc[p].route = "token" /\ hpc[p] = "done"
      /\ resp[p].status = 500 /\ hloc[p].sent = 1
      /\ tokens # <<>> /\ tokens = hloc[p].before

----------------------------------------------------------------------------
(* GET /api/spotify/status *)

(* Locals of the status handler, with the history the properties read:
   fresh whether the store held an unexpired access token when
   getValidServerToken was called, needsRefresh whether that call had to
   refresh, refreshed whether the refresh of this request succeeded,
   authenticated / hasToken the fields of the answer, usable whether the
   store held an unexpired access token when the answer was built *)
StatusLoc ==
    [route |-> "status",
     fresh |-> getAccessToken(tokens) # 0 /\ ~isTokenExpired(tokens, now),
     needsRefresh |-> /\ getAccessToken(tokens) # 0
                      /\ isTokenExpired(tokens, now)
                      /\ getRefreshToken(tokens) # 0,
     refreshed |-> FALSE, authenticated |-> FALSE, hasToken |-> FALSE,
     usable |-> FALSE]

(* variant: the answer always claims authentication *)
AuthenticatedAlways(token) == TRUE

(* const authenticated = !!token *)
Authenticated(token) == token # 0

(* the answer is built from the token getValidServerToken returned and from
   the store as it is then.  The continuation of await getValidServerToken()
   runs in the drain of the job queue that getValidServerToken returned in:
   no I/O callback of another request runs between the two, so the return
   and the answer are one step. *)
StatusAnswer(p, loc, token, store) ==
    /\ HSet(p, "done",
            [loc EXCEPT !.authenticated = Authenticated(token),
                        !.hasToken = getAccessToken(store) # 0,
                        !.usable = /\ getAccessToken(store) # 0
                                   /\ ~isTokenExpired(store, now)],
            Status(200))
    /\ served' = served + 1
    /\ UNCHANGED <<playlistId, created>>

(* status: getValidServerToken is called; without a refresh it returns at
   once and the handler answers *)
StatusStart(p) ==
    /\ hpc[p] = "idle"
    /\ Call(p, "gvt", "")
    /\ IF gpc'[p] = "ret"
       THEN StatusAnswer(p, StatusLoc, gtok'[p], tokens')
       ELSE /\ HSet(p, "s_token", StatusLoc, NoResp)
            /\ UNCHANGED <<playlistId, created, served>>

(* status: the refresh succeeded, getValidServerToken returns the new token *)
StatusRefreshOk(p) ==
    /\ hpc[p] = "s_token"
    /\ GvtRefreshOk(p)
    /\ StatusAnswer(p, [hloc[p] EXCEPT !.refreshed = TRUE], gtok'[p], tokens')

(* status: the refresh failed, getValidServerToken returns null *)
StatusRefreshFail(p) ==
    /\ hpc[p] = "s_token"
    /\ GvtRefreshFail(p)
    /\ StatusAnswer(p, hloc[p], gtok'[p], tokens')

(* Status requests on slot 1 while slot 2 makes a gateway call, over a store
   that is set up and ages *)
InitStatus == InitCommon /\ credsSet = TRUE

NextStatus ==
    \/ TokenExchanged
    \/ AdvanceCoarse
    \/ GwCall(2)
    \/ GwStepOnce(2)
    \/ GwStepRetry(2)
    \/ NextRequest(1)
    \/ StatusStart(1)
    \/ StatusRefreshOk(1)
    \/ StatusRefreshFail(1)

SpecStatus == InitStatus /\ [][NextStatus]_vars

(* C28: GET /api/spotify/status answers authenticated = true exactly when
   the store held an unexpired access token when the request asked for it or
   the refresh this request made succeeded, and exactly when the store
   holds an unexpired access token as the answer is built; whatever other
   requests do meanwhile, no answer has authenticated = true with
   hasToken = false. *)
StatusFaithful ==
    \A p \in Procs :
      (hloc[p].route = "status" /\ hpc[p] = "done") =>
        LET l == hloc[p] IN
        /\ resp[p].status = 200
        /\ l.authenticated <=> (l.fresh \/ l.refreshed)
        /\ l.authenticated <=> l.usable
        /\ l.authenticated => l.hasToken

(* a status request refreshed the token after the other request's refresh
   had failed and cleared the store, and answered authenticated *)
StatusFaithfulWitness ==
    \E p \in Procs :
      /\ hloc[p].route = "status" /\ hpc[p] = "done"
      /\ hloc[p].refreshed /\ hloc[p].authenticated /\ hloc[p].hasToken
      /\ \E q \in Procs \ {p} : Has(trace[q], "xchgFail")

----------------------------------------------------------------------------
(* Requests served while a credential is missing *)

(* CLIENT_ID or CLIENT_SECRET is empty.  The token route stores nothing
   then, so the store is filled directly, as a caller of setTokens would, to
   bring getValidServerToken to its refresh. *)
InitCfg == InitCommon /\ credsSet = FALSE

NextCfg ==
    \/ StoreSet
    \/ AdvanceCoarse
    \/ NextRequest(1)
    \/ TokStart(1)
    \/ StatusStart(1)

SpecCfg == InitCfg /\ [][NextCfg]_vars

(* C29: with a credential missing, a request that needs a code exchange or a
   refresh sends nothing to the token endpoint and is answered 500. *)
ConfigErrorIs500 ==
    \A p \in Procs :
      (hpc[p] = "done" /\ ~credsSet) =>
        /\ (hloc[p].route = "token" /\ hloc[p].code # 0
              /\ hloc[p].redirectUri # 0) =>
             (resp[p].status = 500 /\ hloc[p].sent = 0)
        /\ (hloc[p].route = "status" /\ hloc[p].needsRefresh) =>
             (resp[p].status = 500 /\ Sent(trace[p]) = 0)

----------------------------------------------------------------------------
(* GET /api/spotify/search behind the two entry points of the server *)

(* how a request reaches the Express app: through the serverless handler
   (VERCEL set), or through the http server the process listens on *)
Entries == {"serverless", "listen"}

(* Locals of a search request, with the history the properties read:
   q the query (0 absent), entry the entry point, timer the 25 s timer of the
   serverless handler: "none" never set, "armed", "fired", "cleared" *)
SearchLoc(q, entry) ==
    [route |-> "search", q |-> q, entry |-> entry,
     timer |-> IF entry = "serverless" THEN "armed" ELSE "none",
     called |-> {}, sent |-> 0, log |-> <<>>]

(* res.on('finish') clears the timer *)
Finished(loc) ==
    [loc EXCEPT !.timer = IF @ = "armed" THEN "cleared" ELSE @]

(* the status the search route answers with: the status of a response that
   is not ok, 500 when the call threw or the body could not be read *)
SearchStatus(res) ==
    IF res.kind = "throw" THEN 500
    ELSE IF ~IsOk(res.status) THEN res.status
    ELSE IF res.status = 204 THEN 500
    ELSE 200

(* the request comes in; the serverless handler arms its timer and calls the
   app; the search route checks q and calls spotifyApiCall(searchUrl) *)
SearchStart(p) ==
    /\ hpc[p] = "idle"
    /\ \E q \in {0, 1}, entry \in Entries :
         LET loc == SearchLoc(q, entry) IN
         IF q = 0 THEN Answer(p, Finished(loc), 400)
         ELSE /\ CallRetry(p, "search")
              /\ HSet(p, "x_call", loc, NoResp)
              /\ UNCHANGED <<playlistId, created, served>>

(* spotifyApiCall returned: the route answers, unless the response was sent
   already (res.headersSent) *)
SearchReturned(p) ==
    /\ Returned(p, "x_call")
    /\ HSet(p, "done", Finished(Logged(p)),
            IF resp[p].status # 0 THEN resp[p]
            ELSE Status(SearchStatus(gres[p])))
    /\ Finish(p)
    /\ UNCHANGED <<playlistId, created>>

(* the 25 s timer of the serverless handler fires before the response
   finished: the handler answers 500 "Request timeout"; the route stays
   where it is *)
RequestTimeout(p) ==
    /\ hpc[p] = "x_call"
    /\ hloc[p].timer = "armed"
    /\ resp[p].status = 0
    /\ hloc' = [hloc EXCEPT ![p].timer = "fired"]
    /\ resp' = [resp EXCEPT ![p] = Status(500)]
    /\ UNCHANGED <<storeVars, gwVars, hpc, playlistId, created, served>>

(* One search request at a time on slot 1, the store set up once.  Spotify
   may answer a fetch late or never: its steps carry no fairness.  The
   server's own steps do: a timer that is armed fires, and a handler whose
   call returned goes on. *)
InitLive == InitCommon /\ credsSet = TRUE

NextLive ==
    \/ SetupOnce(1)
    \/ GwFetch(1)
    \/ GwStepRetry(1)
    \/ NextRequest(1)
    \/ SearchStart(1)
    \/ SearchReturned(1)
    \/ RequestTimeout(1)

SpecLive ==
    /\ InitLive /\ [][NextLive]_vars
    /\ WF_vars(SearchReturned(1))
    /\ WF_vars(RequestTimeout(1))

(* C30: every request that waits for an outbound Spotify call is answered
   in the end, also when that call never completes. *)
EveryRequestAnswered ==
    \A p \in Procs : (hpc[p] = "x_call") ~> (resp[p].status # 0)

----------------------------------------------------------------------------
(* GET /api/spotify/search: the limit forwarded to Spotify *)

(* Characters of a limit query parameter and the longest one tried *)
LimitChars == {"-", "0", "1", "2", "9", "x"}
MaxLimitLen == 3

(* req.query.limit: a string, a sequence of characters here; Absent when the
   parameter is not given *)
Absent == <<"absent">>
LimitParams == SeqsUpTo(LimitChars, MaxLimitLen) \cup {Absent}

DigitValue == [c \in {"0", "1", "2", "9"} |-> CASE c = "0" -> 0 [] c = "1" -> 1
                                                [] c = "2" -> 2 [] c = "9" -> 9]

NaN == [nan |-> TRUE, val |-> 0]
Num(n) == [nan |-> FALSE, val |-> n]

(* the longest prefix of digits of str *)
RECURSIVE DigitPrefix(_)
DigitPrefix(str) ==
    IF str = <<>> \/ str[1] \notin DOMAIN DigitValue THEN <<>>
    ELSE <<str[1]>> \o DigitPrefix(Tail(str))

(* the number a sequence of digits writes *)
RECURSIVE DigitsValue(_)
DigitsValue(ds) ==
    IF ds = <<>> THEN 0
    ELSE 10 * DigitsValue(SubSeq(ds, 1, Len(ds) - 1)) + DigitValue[ds[Len(ds)]]

(* parseInt(str): an optional sign, then the digits up to the first character
   that is none; NaN without a digit *)
parseInt(str) ==
    LET neg  == str # <<>> /\ str[1] = "-"
        ds   == DigitPrefix(IF neg THEN Tail(str) ELSE str)
    IN  IF ds = <<>> THEN NaN
        ELSE Num(IF neg THEN 0 - DigitsValue(ds) ELSE DigitsValue(ds))

(* Math.min(parseInt(limit) || 10, 20), limit = "10" when absent *)
ForwardedLimit(limit) ==
    LET n == parseInt(IF limit = Absent THEN <<"1", "0">> ELSE limit)
        v == IF n.nan \/ n.val = 0 THEN 10 ELSE n.val
    IN  IF v < 20 THEN v ELSE 20

(* the search route builds searchUrl from q and limit; what it answers is
   left out here (status 0) *)
SearchUrl(p) ==
    /\ hpc[p] = "idle"
    /\ \E limit \in LimitParams :
         Answer(p, [route |-> "searchUrl", limit |-> limit,
                    forwarded |-> ForwardedLimit(limit)], 0)

(* Search requests with every limit parameter *)
InitLimit == InitCommon /\ credsSet = TRUE

NextLimit == SearchUrl(1) \/ NextRequest(1)

SpecLimit == InitLimit /\ [][NextLimit]_vars

(* C31: whatever the limit parameter is, the limit forwarded to Spotify is an
   integer between 1 and 20, and it is 10 when the parameter is absent or
   not a number. *)
LimitInRange ==
    \A p \in Procs :
      hloc[p].route = "searchUrl" =>
        /\ hloc[p].forwarded \in 1..20
        /\ (hloc[p].limit = Absent \/ parseInt(hloc[p].limit).nan) =>
             hloc[p].forwarded = 10

----------------------------------------------------------------------------
(* POST /api/spotify/queue, the revision that appends to the player queue
   only *)

(* the locals of that handler *)
ImmLoc(body) == [EnqLoc(body) EXCEPT !.route = "enqueueImmediate"]

(* the handler goes on with a gateway call, retryOn401 = false *)
ImmGoes(p, url, pc, loc) ==
    /\ Call(p, "api", url)
    /\ HSet(p, pc, loc, NoResp)
    /\ UNCHANGED <<playlistId, created, served>>

(* the body is read; getValidServerToken is called *)
ImmStart(p) ==
    /\ hpc[p] = "idle"
    /\ \E body \in EnqBodies :
         IF body.songName = 0 /\ body.uri = 0
         THEN Answer(p, ImmLoc(body), 400)
         ELSE /\ Call(p, "gvt", "")
              /\ HSet(p, "i_token", ImmLoc(body), NoResp)
              /\ UNCHANGED <<playlistId, created, served>>

(* getValidServerToken returned: 401 without a token; a name alone is
   searched for; else the player is checked *)
ImmToken(p) ==
    /\ Returned(p, "i_token")
    /\ LET loc == [Logged(p) EXCEPT !.trackUri = hloc[p].uri] IN
       IF gres[p].status = 0
       THEN Answer(p, loc, 401)
       ELSE IF NeedsSearch(loc.songName, loc.uri)
       THEN /\ CallRetry(p, "search")
            /\ HSet(p, "i_search", [loc EXCEPT !.searches = @ + 1], NoResp)
            /\ UNCHANGED <<playlistId, created, served>>
       ELSE ImmGoes(p, "player", "i_player1", loc)

(* the search returned *)
ImmSearch(p) ==
    /\ Returned(p, "i_search")
    /\ \/ /\ ~RespOk(p) \/ gres[p].status = 204
          /\ Answer(p, Logged(p), 500)
       \/ /\ RespOk(p) /\ gres[p].status # 204
          /\ \E items \in SearchResults :
               IF Len(items) = 0
               THEN Answer(p, [Logged(p) EXCEPT !.found = "none"], 404)
               ELSE ImmGoes(p, "player", "i_player1",
                            [Logged(p) EXCEPT !.trackUri = items[1],
                                              !.found = "some",
                                              !.first = items[1]])

(* the player check returned; whatever it answered the uri is appended to
   the player queue; a throw leaves the try block with queueAdded false *)
ImmPlayer1(p) ==
    /\ Returned(p, "i_player1")
    /\ IF gres[p].kind = "throw"
       THEN ImmGoes(p, "player", "i_player2", Logged(p))
       ELSE ImmGoes(p, "queueAdd", "i_qadd",
                    [Logged(p) EXCEPT !.queuedUri = hloc[p].trackUri])

(* POST /v1/me/player/queue?uri= returned: queueAdded when ok *)
ImmQueueAdd(p) ==
    /\ Returned(p, "i_qadd")
    /\ ImmGoes(p, "player", "i_player2", [Logged(p) EXCEPT !.queueAdded = RespOk(p)])

(* playback is ensured: GET /v1/me/player returned.  With queueAdded a paused
   session is resumed; without it "Failed to add song to queue" is thrown
   inside the try block, whose catch ignores every error; the handler then
   answers success *)
ImmPlayer2(p) ==
    /\ Returned(p, "i_player2")
    /\ \/ /\ RespOk(p) /\ gres[p].status # 204
          /\ \E isPlaying \in BOOLEAN :
               LET loc == [Logged(p) EXCEPT
                             !.session = IF isPlaying THEN "playing" ELSE "paused"]
               IN  IF loc.queueAdded /\ ~isPlaying
                   THEN ImmGoes(p, "play", "i_play", loc)
                   ELSE Answer(p, loc, 200)
       \/ /\ RespOk(p) /\ gres[p].status = 204
          /\ Answer(p, [Logged(p) EXCEPT !.session = "none"], 200)
       \/ /\ ~RespOk(p)
          /\ Answer(p, Logged(p), 200)

(* PUT /v1/me/player/play returned; its outcome is not looked at *)
ImmPlay(p) ==
    /\ Returned(p, "i_play")
    /\ Answer(p, Logged(p), 200)

(* One enqueue at a time on slot 1, the store set up once *)
InitImm == InitCommon /\ credsSet = TRUE

NextImm ==
    \/ SetupOnce(1)
    \/ GwFetch(1)
    \/ GwStepRetry(1)
    \/ NextRequest(1)
    \/ ImmStart(1)
    \/ ImmToken(1)
    \/ ImmSearch(1)
    \/ ImmPlayer1(1)
    \/ ImmQueueAdd(1)
    \/ ImmPlayer2(1)
    \/ ImmPlay(1)

SpecImm == InitImm /\ [][NextImm]_vars

(* C32: the immediate-queue-only enqueue answers success only if its POST to
   /v1/me/player/queue was answered ok; when that append was rejected, threw
   or was never sent, the answer is an error. *)
ImmediateAppendRequired ==
    \A p \in Procs :
      (hloc[p].route = "enqueueImmediate" /\ hpc[p] = "done"
         /\ resp[p].status = 200) =>
        hloc[p].queueAdded

----------------------------------------------------------------------------
(* The playlist scan of the remove operation *)

(* C33: a scan makes at most 5 page requests; one that returned stopped at
   the page that failed, at the page that holds the track, at the first
   page shorter than 100 items, or after page 5; it returns the uri of the
   playlist item that matches the target by uri or by id when that item
   lies in the first 500 tracks (and no page before it failed), and null
   otherwise. *)
ScanBoundedAndExact ==
    \A p \in Procs :
      hloc[p].route = "remove" =>
        LET l == hloc[p] IN
        /\ l.page <= MaxPages
        /\ Count(LogNow(p), "tracks") <= 3 * MaxPages
        /\ \A i \in 1..Len(l.scanned) :
             LET sc == l.scanned[i]
                 r  == l.found[i]
             IN  /\ sc.pages \in 1..MaxPages
                 /\ sc.why = "failed" => r = 0
                 /\ sc.why = "found" => sc.pages = sc.snap.pos
                 /\ sc.why = "short" => sc.pages = sc.snap.full + 1
                 /\ sc.why = "capped" => sc.pages = MaxPages
                 /\ sc.why # "failed" => (r # 0 <=> sc.snap.pos \in 1..MaxPages)
                 /\ r # 0 => (r = sc.snap.uri /\ r \in Matches(l.trackUri, l.trackId))

(* a scan read five full pages and returned null for a track that the
   playlist holds beyond its first 500 *)
ScanBoundedAndExactWitness ==
    \E p \in Procs :
      /\ hloc[p].route = "remove"
      /\ Len(hloc[p].scanned) >= 1
      /\ hloc[p].scanned[1].why = "capped"
      /\ hloc[p].scanned[1].pages = MaxPages
      /\ hloc[p].scanned[1].snap.pos = MaxPages + 1
      /\ hloc[p].found[1] = 0

----------------------------------------------------------------------------
(* The serverless entry points and their once-only initialization.

   Slot 0 of hloc holds what is global to the process: the environment
   (VERCEL set, NODE_ENV = production), the module variables appInitialized
   and initializationPromise of the entry module, and the history of the
   calls of initializeApp.  registerRoutes has no await of its own, so an
   await of it resumes before any other request is looked at; the dynamic
   import of ./vite and setupVite, which initializeApp of server/index.ts
   reaches when VERCEL is unset outside production, wait for I/O. *)

(* what slot 0 of hloc holds *)
Global == hloc[0]

EntryPoints == {"part_002", "api"}

(* the process after the entry module was loaded; server/index.ts, which
   api/index.ts imports, calls initializeApp itself when VERCEL is unset *)
Loaded(entry, vercel, production) ==
    [route |-> "module", entry |-> entry, vercel |-> vercel,
     production |-> production, appInitialized |-> FALSE,
     initializationPromise |-> "null",
     atImport |-> IF entry = "api" /\ ~vercel THEN 1 ELSE 0,
     byHandler |-> 0, listening |-> FALSE]

BootLoc == [route |-> "boot"]

BootSet(p, pc, mod, s) ==
    /\ hloc' = [hloc EXCEPT ![p] = BootLoc, ![0] = mod]
    /\ hpc' = [hpc EXCEPT ![p] = pc]
    /\ resp' = [resp EXCEPT ![p] = Status(s)]
    /\ served' = IF pc = "done" THEN served + 1 ELSE served
    /\ UNCHANGED <<storeVars, gwVars, playlistId, created>>

(* initializeApp of server/index.ts waits for I/O before it returns *)
Suspends(mod) == ~mod.vercel /\ ~mod.production

(* handler of part_002: the first request creates initializationPromise
   before its first await, every request awaits that promise, then the app
   answers; initializeApp of part_002 awaits registerRoutes only *)
EntryHandler(p) ==
    /\ hpc[p] = "idle"
    /\ Global.entry = "part_002"
    /\ LET m == Global
           first == ~m.appInitialized /\ m.initializationPromise = "null"
       IN  BootSet(p, "done",
                   [m EXCEPT !.appInitialized = TRUE,
                             !.initializationPromise =
                                 IF ~m.appInitialized THEN "fulfilled" ELSE @,
                             !.byHandler = IF first THEN @ + 1 ELSE @],
                   200)

(* handler of api/index.ts: a request that finds appInitialized false calls
   initializeApp and sets the flag after the await *)
ApiHandler(p) ==
    /\ hpc[p] = "idle"
    /\ Global.entry = "api"
    /\ LET m == Global IN
       IF m.appInitialized THEN BootSet(p, "done", m, 200)
       ELSE IF Suspends(m)
            THEN BootSet(p, "b_init", [m EXCEPT !.byHandler = @ + 1], 0)
            ELSE BootSet(p, "done", [m EXCEPT !.byHandler = @ + 1,
                                              !.appInitialized = TRUE], 200)

(* import("./vite") and setupVite finished, or threw: initializeApp
   rethrows and the flag stays false *)
ViteReady(p) ==
    /\ hpc[p] = "b_init"
    /\ \E ok \in BOOLEAN :
         IF ok THEN BootSet(p, "done",
                            [Global EXCEPT !.appInitialized = TRUE], 200)
         ELSE BootSet(p, "done", Global, 500)

(* the initialization that server/index.ts started at import finished: the
   server listens *)
Listen ==
    /\ Global.atImport = 1
    /\ ~Global.listening
    /\ hloc' = [hloc EXCEPT ![0].listening = TRUE]
    /\ UNCHANGED <<storeVars, gwVars, hpc, resp, playlistId, created, served>>

BootNextRequest(p) ==
    /\ hpc[p] = "done"
    /\ served < MaxRequests
    /\ hpc' = [hpc EXCEPT ![p] = "idle"]
    /\ hloc' = [hloc EXCEPT ![p] = NoLoc]
    /\ resp' = [resp EXCEPT ![p] = NoResp]
    /\ UNCHANGED <<storeVars, gwVars, playlistId, created, served>>

(* Both entry points in every environment, requests on both slots *)
InitBoot ==
    /\ tokens = <<>> /\ now = 0 /\ setAt = 0 /\ setE = 0 /\ advances = 0
    /\ issued = 0 /\ lastWrite = NoWrite /\ playlistId = 0 /\ created = 0
    /\ served = 0 /\ credsSet = TRUE
    /\ hpc = [p \in Procs |-> "idle"]
    /\ gpc = [p \in Procs |-> "idle"]
    /\ gmode = [p \in Procs |-> "api"]
    /\ gurl = [p \in Procs |-> ""]
    /\ gretry = [p \in Procs |-> FALSE]
    /\ gtok = [p \in Procs |-> 0]
    /\ grt = [p \in Procs |-> 0]
    /\ gres = [p \in Procs |-> NoRes]
    /\ resp = [p \in Procs |-> NoResp]
    /\ trace = [p \in Procs |-> <<>>]
    /\ \E entry \in EntryPoints, vercel \in BOOLEAN, production \in BOOLEAN :
         hloc = [p \in Procs \cup {0} |->
                   IF p = 0 THEN Loaded(entry, vercel, production)
                   ELSE NoLoc]

NextBoot ==
    \/ Listen
    \/ \E p \in Procs :
      \/ EntryHandler(p)
      \/ ApiHandler(p)
      \/ ViteReady(p)
      \/ BootNextRequest(p)

SpecBoot == InitBoot /\ [][NextBoot]_vars

(* C34: in each serverless entry point initializeApp is invoked at most
   once per process, also when requests arrive before the first
   initialization has completed. *)
InitializedOnce ==
    Global.atImport + Global.byHandler <= 1

----------------------------------------------------------------------------
(* The client TokenProvider and its refresh timer.

   Slot 0 of hloc holds the provider: expiryRef, refreshTimerRef (the handle
   of the last timer armed, NoTimer when null) and the timers the window
   holds.  A timer is the pair of the instant it was armed and the instant
   it is due.  The slots of hpc are the calls of refreshAccessToken whose
   fetch of /api/refresh is in flight. *)

NoTimer == [armed |-> -1, due |-> -1]

(* expires_in values (seconds) the provider is handed; 0 is "absent" *)
ClientExpiresIn == {0, 3, 60, 61, 3600}

ClientSteps == {1000, 4000, 60000}

Provider(expiry, handle, timers) ==
    [route |-> "provider", expiryRef |-> expiry, refreshTimerRef |-> handle,
     timers |-> timers]

Max(a, b) == IF a >= b THEN a ELSE b

(* the delay handed to setTimeout *)
Timeout(msLeft) ==
    LET refreshBefore == Max(5000, 60000)
    IN  Max(0, msLeft - refreshBefore)

(* scheduleRefresh(expiresAt), expiresAt = 0 for null *)
scheduleRefresh(prov, expiresAt) ==
    LET cleared == prov.timers \ {prov.refreshTimerRef}
        timer   == [armed |-> now, due |-> now + Timeout(expiresAt - now)]
    IN  IF expiresAt = 0 THEN Provider(expiresAt, NoTimer, cleared)
        ELSE Provider(expiresAt, timer, cleared \cup {timer})

(* setAccessToken(token, expiresIn) *)
setAccessToken(prov, token, expiresIn) ==
    scheduleRefresh(prov, IF token # 0 /\ expiresIn # 0
                          THEN now + expiresIn * 1000 ELSE 0)

ClientSet(prov) ==
    /\ hloc' = [hloc EXCEPT ![0] = prov]
    /\ UNCHANGED <<storeVars, gwVars, resp, playlistId, created, served>>

(* the page hands the provider a token *)
TokenHanded ==
    /\ \E token \in {0, 1}, expiresIn \in ClientExpiresIn :
         ClientSet(setAccessToken(Global, token, expiresIn))
    /\ UNCHANGED hpc

(* a timer that is due fires: refreshAccessToken sends POST /api/refresh *)
TimerFires(p) ==
    /\ hpc[p] = "idle"
    /\ \E t \in Global.timers :
         /\ now >= t.due
         /\ ClientSet([Global EXCEPT !.timers = @ \ {t}])
    /\ hpc' = [hpc EXCEPT ![p] = "r_fetch"]

(* /api/refresh answered, or the fetch threw *)
RefreshAnswered(p) ==
    /\ hpc[p] = "r_fetch"
    /\ \E ok \in BOOLEAN, expiresIn \in ClientExpiresIn :
         ClientSet(setAccessToken(Global, IF ok THEN 1 ELSE 0,
                                  IF ok THEN expiresIn ELSE 0))
    /\ hpc' = [hpc EXCEPT ![p] = "idle"]

ClientTick == Advance(ClientSteps)

InitClient ==
    /\ tokens = <<>> /\ now = 0 /\ setAt = 0 /\ setE = 0 /\ advances = 0
    /\ issued = 0 /\ lastWrite = NoWrite /\ playlistId = 0 /\ created = 0
    /\ served = 0 /\ credsSet = TRUE
    /\ hpc = [p \in Procs |-> "idle"]
    /\ gpc = [p \in Procs |-> "idle"]
    /\ gmode = [p \in Procs |-> "api"]
    /\ gurl = [p \in Procs |-> ""]
    /\ gretry = [p \in Procs |-> FALSE]
    /\ gtok = [p \in Procs |-> 0]
    /\ grt = [p \in Procs |-> 0]
    /\ gres = [p \in Procs |-> NoRes]
    /\ resp = [p \in Procs |-> NoResp]
    /\ trace = [p \in Procs |-> <<>>]
    /\ hloc = [p \in Procs \cup {0} |->
                 IF p = 0 THEN Provider(0, NoTimer, {}) ELSE NoLoc]

NextClient ==
    \/ TokenHanded
    \/ ClientTick
    \/ \E p \in Procs : TimerFires(p) \/ RefreshAnswered(p)

SpecClient == InitClient /\ [][NextClient]_vars

(* C35: every pending refresh timer is due 60 s before the expiry it was
   armed for and never sooner than 5 s after it was armed, and at most one
   timer is pending. *)
RefreshTimerSound ==
    LET prov == Global IN
    /\ Cardinality(prov.timers) <= 1
    /\ \A t \in prov.timers :
         /\ t.due >= t.armed + 5000
         /\ t.due = Max(prov.expiryRef - 60000, t.armed + 5000)

----------------------------------------------------------------------------
(* Concurrent refreshes of the token store *)

(* C36: a refresh attempt of getValidServerToken that fails clears the
   store only if the store still holds the record the attempt set out to
   refresh, that is an expired record with the refresh token the attempt
   used; a pair stored meanwhile by another refresh or by a code exchange
   stays. *)
LateFailureSpares ==
    [][\A p \in Procs :
         (gpc[p] = "gvtRefresh" /\ gpc'[p] # "gvtRefresh"
            /\ tokens # <<>> /\ tokens' = <<>>) =>
           /\ isTokenExpired(tokens, now)
           /\ getRefreshToken(tokens) = grt[p]]_vars

----------------------------------------------------------------------------
(* Concurrent calls of getOrCreateRadioPlaylist *)

(* Calls on both slots, the store set up once with a token that stays
   fresh *)
NextPlBoth ==
    \/ SetupOnce(1)
    \/ \E p \in Procs :
         \/ GwFetch(p)
         \/ PlStart(p)
         \/ PlVerified(p)
         \/ PlToken(p)
         \/ PlMe(p)
         \/ PlCreate(p)

SpecPlBoth == InitPl /\ [][NextPlBoth]_vars

(* C37: calls of getOrCreateRadioPlaylist that started while no playlist
   id was cached and returned an id returned the same id (one playlist was
   created for them), and that id is the one the RadioPlaylistRef holds. *)
OnePlaylistForAll ==
    \A p, q \in Procs :
      (/\ PlEnded(p) /\ hloc[p].cached = 0 /\ hloc[p].ret # 0
       /\ PlEnded(q) /\ hloc[q].cached = 0 /\ hloc[q].ret # 0) =>
        /\ hloc[p].ret = hloc[q].ret
        /\ playlistId \in {0, hloc[p].ret}

----------------------------------------------------------------------------
(* What the queue view changes *)

(* C38: GET /api/spotify/queue sends only GET requests to the Web API: no
   step of it has sent the playlist creation POST, creates a playlist or
   changes the RadioPlaylistRef. *)
QueueViewReadOnly ==
    [][\A p \in Procs :
         hloc'[p].route = "queue" =>
           /\ "create" \notin hloc'[p].called
           /\ created' = created
           /\ playlistId' = playlistId]_vars

----------------------------------------------------------------------------
(* A stored access token and its refresh token *)

(* C39: a store that holds an access token holds a refresh token too, so
   no status request answers hasToken = true with authenticated = false
   (a stored, expired token that getValidServerToken gives up on without
   clearing the store). *)
RefreshTokenHeld ==
    /\ getAccessToken(tokens) # 0 => getRefreshToken(tokens) # 0
    /\ \A p \in Procs :
         (hloc[p].route = "status" /\ hpc[p] = "done") =>
           ~(hloc[p].hasToken /\ ~hloc[p].authenticated)

=============================================================================
